---- MODULE Spec2Model ----
(***************************************************************************)
(* Model of the meal-name deduplication tool (deduplicate_db.py), of the   *)
(* SQLite tables it works on (app/database.py) and of the scheduler job    *)
(* that fills them (app/scheduler.py).                                     *)
(*                                                                         *)
(* A Python str is modelled as a sequence of one-character strings, so     *)
(* that the regular expressions and the SequenceMatcher of the source act  *)
(* on characters as they do in the program.                                *)
(***************************************************************************)
EXTENDS Integers, Sequences, FiniteSets, TLC

VARIABLES
    meal,               \* table meal as the connection sees it: id -> name
    day,                \* table day as the connection sees it: rowid -> [column -> meal id or NULL]
    committedMeal,      \* table meal as stored in the database file
    committedDay,       \* table day as stored in the database file
    dayColumns,         \* the meal-reference columns the day table has
    inTransaction,      \* conn.in_transaction
    processed,          \* find_duplicate_groups: the set `processed`
    duplicate_groups,   \* find_duplicate_groups: second result
    canonical_mapping,  \* find_duplicate_groups: first result (dict, in insertion order)
    runs,               \* find_duplicate_groups calls since the last apply_deduplication call
    lastCall,           \* what the last apply_deduplication call was and did
    name1, name2,       \* are_duplicates: arguments
    threshold,          \* are_duplicates: threshold, in hundredths
    verdict,            \* are_duplicates: result
    returned,           \* what the last call of a function run on its own returned
    all_meals,          \* the list a cluster pass iterates over
    evaluated,          \* find_duplicate_groups: the are_duplicates calls of the pass, in order
    mealplan,           \* table mealplan: id -> [year, week]
    now,                \* datetime.now(): the date of today
    pdf,                \* what the school's site serves at the URL of the current block
    archive             \* the weeks with a file Speisenplan_KW_<week>.pdf in ./archive

vars == <<meal, day, committedMeal, committedDay, dayColumns, inTransaction,
          processed, duplicate_groups, canonical_mapping, runs, lastCall,
          name1, name2, threshold, verdict, returned, all_meals, evaluated,
                   mealplan, now, pdf, archive>>

\* SQL NULL in a meal-reference column (meal ids start at 1)
NULL == 0

\* Python's None, True and False as values of one kind
None == "None"
True == "True"
False == "False"

----------------------------------------------------------------------------
(* Characters.                                                             *)

\* The characters of the model, in code-point order (the order of SQLite's
\* BINARY collation on UTF-8 text and of Python's str comparison).
Alphabet ==
    << " ", "&", "(", ")", ",", "-",
       "0", "1", "2", "3", "4", "5", "6", "7", "8", "9",
       "A", "B", "C", "D", "E", "F", "G", "H", "I", "J", "K", "L", "M",
       "N", "O", "P", "Q", "R", "S", "T", "U", "V", "W", "X", "Y", "Z",
       "a", "b", "c", "d", "e", "f", "g", "h", "i", "j", "k", "l", "m",
       "n", "o", "p", "q", "r", "s", "t", "u", "v", "w", "x", "y", "z",
       "Ä", "Ö", "Ü", "ß", "ä", "ö", "ü" >>

Ord(c) == CHOOSE i \in 1..Len(Alphabet) : Alphabet[i] = c

UpperChars ==
    << "A", "B", "C", "D", "E", "F", "G", "H", "I", "J", "K", "L", "M",
       "N", "O", "P", "Q", "R", "S", "T", "U", "V", "W", "X", "Y", "Z",
       "Ä", "Ö", "Ü" >>

LowerChars ==
    << "a", "b", "c", "d", "e", "f", "g", "h", "i", "j", "k", "l", "m",
       "n", "o", "p", "q", "r", "s", "t", "u", "v", "w", "x", "y", "z",
       "ä", "ö", "ü" >>

\* [a-z] of the regular expressions: ASCII lower-case letters only.
IsAsciiLower(c) == \E i \in 1..26 : LowerChars[i] = c

\* \d
IsDigit(c) == c \in {"0", "1", "2", "3", "4", "5", "6", "7", "8", "9"}

\* \s
IsSpace(c) == c = " "

\* [,\s]
IsCommaOrSpace(c) == c = "," \/ IsSpace(c)

\* str.lower() on one character
LowerChar(c) ==
    IF \E i \in 1..Len(UpperChars) : UpperChars[i] = c
    THEN LowerChars[CHOOSE i \in 1..Len(UpperChars) : UpperChars[i] = c]
    ELSE c

\* str.lower()
Lower(s) == [i \in 1..Len(s) |-> LowerChar(s[i])]

\* s[i:j] of Python with 1-based inclusive indices i..j
Slice(s, i, j) == IF j < i THEN <<>> ELSE SubSeq(s, i, j)

\* The least and the greatest element of a non-empty set of integers
Min(S) == CHOOSE x \in S : \A y \in S : x <= y
Max(S) == CHOOSE x \in S : \A y \in S : y <= x

\* a < b for Python str / SQLite BINARY text: decided at the first position
\* where the two differ, a proper prefix being less
StrLess(a, b) ==
    LET Decided(diff) ==
            IF diff = {} THEN Len(a) < Len(b)
            ELSE Ord(a[Min(diff)]) < Ord(b[Min(diff)])
    IN  Decided({i \in 1..Min({Len(a), Len(b)}) : a[i] # b[i]})

\* s.find(sub), 0-based, -1 when absent
Find(s, sub) ==
    LET First(hits) == IF hits = {} THEN -1 ELSE Min(hits) - 1
    IN  First({i \in 1..(Len(s) - Len(sub) + 1) : SubSeq(s, i, i + Len(sub) - 1) = sub})

\* sub in s
Contains(s, sub) == Find(s, sub) >= 0

\* s.count(c) for a one-character c
CountChar(s, c) == Cardinality({i \in 1..Len(s) : s[i] = c})

\* s.replace(old, new) for a one-character old, one occurrence at a time
RECURSIVE ReplaceChar(_, _, _)
ReplaceChar(s, old, new) ==
    LET Replace(hits) ==
            IF hits = {} THEN s
            ELSE Slice(s, 1, Min(hits) - 1) \o new
                 \o ReplaceChar(Slice(s, Min(hits) + 1, Len(s)), old, new)
    IN  Replace({i \in 1..Len(s) : s[i] = old})

\* The part of s from its first to its last character that is not in the
\* way, where solid is the set of the positions of such characters
Trimmed(s, solid, left, right) ==
    IF solid = {} THEN <<>>
    ELSE Slice(s, IF left THEN Min(solid) ELSE 1, IF right THEN Max(solid) ELSE Len(s))

\* s.lstrip(), s.rstrip(), s.strip()
LStrip(s) == Trimmed(s, {i \in 1..Len(s) : ~IsSpace(s[i])}, TRUE, FALSE)

RStrip(s) == Trimmed(s, {i \in 1..Len(s) : ~IsSpace(s[i])}, FALSE, TRUE)

Strip(s) == Trimmed(s, {i \in 1..Len(s) : ~IsSpace(s[i])}, TRUE, TRUE)

\* The characters of s at the positions in keep, in order
Pick(s, keep) ==
    LET Ranked(rank) == [k \in 1..Cardinality(keep) |-> s[CHOOSE i \in keep : rank[i] = k]]
    IN  Ranked([i \in keep |-> Cardinality({j \in keep : j <= i})] @@ <<>>)

\* re.sub(r'\s+', ' ', s): of every run of white space one space stays
CollapseSpaces(s) ==
    LET Spaced(t) == [k \in 1..Len(t) |-> IF IsSpace(t[k]) THEN " " ELSE t[k]]
    IN  Spaced(Pick(s, {i \in 1..Len(s) : ~(IsSpace(s[i]) /\ i > 1 /\ IsSpace(s[i - 1]))}))

\* Position i of s starts a match of \s*X\s*: a run of white space (the
\* greedy \s* takes the whole run) and then X
StartsSeparator(s, i, x) ==
    LET IsX(rest) == rest # <<>> /\ rest[1] = x
    IN  IsX(LStrip(Slice(s, i, Len(s))))

\* re.sub(r'\s*X\s*', ' ', s) for a one-character X, one match at a time:
\* the leftmost match is replaced, and the white space after its X with it
RECURSIVE SubSeparator(_, _)
SubSeparator(s, x) ==
    LET After(i, rest) == Slice(s, 1, i - 1) \o <<" ">> \o SubSeparator(LStrip(Tail(rest)), x)
        At(i) == After(i, LStrip(Slice(s, i, Len(s))))
        Sub(starts) == IF starts = {} THEN s ELSE At(Min(starts))
    IN  Sub({i \in 1..Len(s) : StartsSeparator(s, i, x)})

\* s.split(): the words of s
RECURSIVE Split(_)
Split(s) ==
    LET Cut(t, e) == <<SubSeq(t, 1, e - 1)>> \o Split(Slice(t, e, Len(t)))
        FirstEnd(t, ends) == Cut(t, IF ends = {} THEN Len(t) + 1 ELSE Min(ends))
        Words(t) == IF t = <<>> THEN <<>> ELSE FirstEnd(t, {i \in 1..Len(t) : IsSpace(t[i])})
    IN  Words(LStrip(s))

\* ' '.join(words)
RECURSIVE Join(_)
Join(words) ==
    IF words = <<>> THEN <<>>
    ELSE IF Len(words) = 1 THEN words[1]
    ELSE words[1] \o <<" ">> \o Join(Tail(words))

----------------------------------------------------------------------------
(* normalize_meal_name                                                     *)

\* (?=[,\s]|$) at position k of s
CodeLookahead(s, k) == k > Len(s) \/ IsCommaOrSpace(s[k])

\* ([a-z]\d?)(?=[,\s]|$) at position j: the position after the code, 0 when
\* there is no match. \d? is greedy and gives the digit back when the
\* lookahead fails after it.
LetterCodeEnd(s, j) ==
    IF j > Len(s) \/ ~IsAsciiLower(s[j]) THEN 0
    ELSE IF j + 1 <= Len(s) /\ IsDigit(s[j + 1]) /\ CodeLookahead(s, j + 2) THEN j + 2
    ELSE IF CodeLookahead(s, j + 1) THEN j + 1
    ELSE 0

\* (\d)(?=[,\s]|$) at position j
NumberCodeEnd(s, j) ==
    IF j > Len(s) \/ ~IsDigit(s[j]) THEN 0
    ELSE IF CodeLookahead(s, j + 1) THEN j + 1
    ELSE 0

CodeEnd(s, j, letters) == IF letters THEN LetterCodeEnd(s, j) ELSE NumberCodeEnd(s, j)

\* (?:^|[,\s])(code)(?=[,\s]|$) tried at position i: <<start of the code,
\* position after the match>>, <<0, 0>> when there is no match. The
\* alternative ^ is tried first and holds at the start of the string only.
CodeMatch(s, i, letters) ==
    LET Choice(atStart, afterSeparator) ==
            IF i = 1 /\ atStart # 0 THEN <<1, atStart>>
            ELSE IF i <= Len(s) /\ IsCommaOrSpace(s[i]) /\ afterSeparator # 0
                 THEN <<i + 1, afterSeparator>>
            ELSE <<0, 0>>
    IN  Choice(CodeEnd(s, 1, letters), CodeEnd(s, i + 1, letters))

\* The first position >= i at which the code pattern matches, 0 when none
NextCodeMatch(s, i, letters) ==
    LET First(at) == IF at = {} THEN 0 ELSE Min(at)
    IN  First({k \in i..Len(s) : CodeMatch(s, k, letters)[2] # 0})

\* re.findall of the code pattern, from position i on, as a set
RECURSIVE FindCodes(_, _, _)
FindCodes(s, i, letters) ==
    LET Found(m) == {SubSeq(s, m[1], m[2] - 1)} \cup FindCodes(s, m[2], letters)
        At(k) == IF k = 0 THEN {} ELSE Found(CodeMatch(s, k, letters))
    IN  At(NextCodeMatch(s, i, letters))

\* re.sub of the code pattern by ' ', from position i on
RECURSIVE SubCodes(_, _, _)
SubCodes(s, i, letters) ==
    LET Replaced(k, m) == Slice(s, i, k - 1) \o <<" ">> \o SubCodes(s, m[2], letters)
        At(k) == IF k = 0 THEN Slice(s, i, Len(s)) ELSE Replaced(k, CodeMatch(s, k, letters))
    IN  At(NextCodeMatch(s, i, letters))

\* re.sub(r'\([^)]*\)', ' ', s), one match at a time: a match starts at the
\* first '(' that has a ')' after it and ends at the first such ')'
RECURSIVE SubParentheses(_)
SubParentheses(s) ==
    LET Cut(o, c) == Slice(s, 1, o - 1) \o <<" ">> \o SubParentheses(Slice(s, c + 1, Len(s)))
        At(o) == Cut(o, Min({j \in (o + 1)..Len(s) : s[j] = ")"}))
        Sub(opens) == IF opens = {} THEN s ELSE At(Min(opens))
    IN  Sub({i \in 1..Len(s) : s[i] = "(" /\ \E j \in (i + 1)..Len(s) : s[j] = ")"})

\* re.sub(r'^[\s,\-]+|[\s,\-]+$', '', s)
IsEdgeJunk(c) == IsSpace(c) \/ c = "," \/ c = "-"

StripEdgeJunk(s) == Trimmed(s, {i \in 1..Len(s) : ~IsEdgeJunk(s[i])}, TRUE, TRUE)

\* The four replacements of German special characters
FoldGerman(s) ==
    ReplaceChar(ReplaceChar(ReplaceChar(ReplaceChar(s,
        "ä", <<"a", "e">>), "ö", <<"o", "e">>), "ü", <<"u", "e">>), "ß", <<"s", "s">>)

\* name_no_codes after lines 38-48
NameNoCodes(name) ==
    LET noLetters == SubCodes(name, 1, TRUE)
        noNumbers == SubCodes(noLetters, 1, FALSE)
        noParens  == SubParentheses(noNumbers)
        noCommas  == SubSeparator(noParens, ",")
        noAmp     == SubSeparator(noCommas, "&")
    IN  Strip(CollapseSpaces(noAmp))

\* clean_name after lines 51-54
CleanName(name) ==
    StripEdgeJunk(Strip(CollapseSpaces(SubSeparator(NameNoCodes(name), "-"))))

\* normalize_meal_name(name): the record of its three results
normalize_meal_name(name) ==
    LET Results(clean) ==
            [norm  |-> Strip(CollapseSpaces(FoldGerman(Lower(clean)))),
             codes |-> FindCodes(name, 1, TRUE) \cup FindCodes(name, 1, FALSE),
             clean |-> clean]
    IN  IF name = <<>> THEN [norm |-> <<>>, codes |-> {}, clean |-> <<>>]
        ELSE Results(CleanName(name))

----------------------------------------------------------------------------
(* extract_dish_name                                                       *)

WordWok == <<"w", "o", "k">>

\* The words at which the headline of a non-Wok dish ends
DishSeparators == {<<"m", "i", "t">>, <<"d", "a", "z", "u">>, <<"i", "n">>, <<"a", "n">>}

\* words[:n]
FirstWords(words, n) == SubSeq(words, 1, IF n < Len(words) THEN n ELSE Len(words))

\* Lines 110-122: the headline of a dish that is no Wok dish; a separator
\* ends the headline only at a word position > 0
GenericDishName(clean, words) ==
    LET Headline(seps) ==
            IF Len(words) <= 3 THEN clean
            ELSE IF seps # {} THEN Join(FirstWords(words, Min(seps) - 1))
            ELSE Join(FirstWords(words, 3))
    IN  Headline({i \in 2..Len(words) : Lower(words[i]) \in DishSeparators})

\* Lines 89-108 and the fall through to lines 110-122, for the clean name
\* and its words
DishNameOf(clean, words) ==
    LET Headline(wok) ==
            IF Contains(Lower(clean), WordWok) /\ wok = 1 /\ Len(words) > 1
            THEN Join(FirstWords(words, 2))
            ELSE IF Contains(Lower(clean), WordWok) /\ wok > 1
                 THEN Join(FirstWords(words, wok))
                 ELSE GenericDishName(clean, words)
        FirstWok(woks) == Headline(IF woks = {} THEN 0 ELSE Min(woks))
    IN  FirstWok({i \in 1..Len(words) : Lower(words[i]) = WordWok})

extract_dish_name(name) ==
    LET OfClean(clean) == DishNameOf(clean, Split(clean))
    IN  OfClean(normalize_meal_name(name).clean)

----------------------------------------------------------------------------
(* similarity_score: difflib.SequenceMatcher(None, s1, s2).ratio().        *)
(* The strings are shorter than 200 characters, so the automatic junk      *)
(* heuristic of SequenceMatcher never applies.                             *)

\* The run taken to reach the end of the shorter window
RunLengthToEnd(a, b, i, j, ahi, bhi) == Min({ahi - i, bhi - j}) + 1

\* The length of the common run of a and b that starts at a[i], b[j] and
\* stays within a[..ahi], b[..bhi]
RunLength(a, b, i, j, ahi, bhi) ==
    LET room == Min({ahi - i, bhi - j}) + 1
        ends == {d \in 0..(room - 1) : a[i + d] # b[j + d]}
    IN  IF ends = {} THEN room ELSE Min(ends)

\* find_longest_match(alo, ahi, blo, bhi) on the windows a[alo..ahi],
\* b[blo..bhi] (1-based, inclusive): <<i, j, k>>, the longest block, of
\* those the one starting earliest in a, of those the one starting earliest
\* in b; k = 0 when no character matches.
find_longest_match(a, b, alo, ahi, blo, bhi) ==
    LET Earliest(longest) ==
            CHOOSE x \in longest :
                \A y \in longest : x[1] < y[1] \/ (x[1] = y[1] /\ x[2] <= y[2])
        Longest(blocks) ==
            IF blocks = {} THEN <<alo, blo, 0>>
            ELSE Earliest({x \in blocks : \A y \in blocks : y[3] <= x[3]})
        Blocks(starts) ==
            Longest({<<p[1], p[2], RunLength(a, b, p[1], p[2], ahi, bhi)>> : p \in starts})
    IN  Blocks({p \in (alo..ahi) \X (blo..bhi) :
                   /\ a[p[1]] = b[p[2]]
                   /\ (p[1] = alo \/ p[2] = blo \/ a[p[1] - 1] # b[p[2] - 1])})

\* The total size of get_matching_blocks() within the windows
RECURSIVE MatchingSize(_, _, _, _, _, _)
MatchingSize(a, b, alo, ahi, blo, bhi) ==
    LET Around(m) ==
            IF m[3] = 0 THEN 0
            ELSE m[3]
                 + MatchingSize(a, b, alo, m[1] - 1, blo, m[2] - 1)
                 + MatchingSize(a, b, m[1] + m[3], ahi, m[2] + m[3], bhi)
    IN  IF alo > ahi \/ blo > bhi THEN 0
        ELSE Around(find_longest_match(a, b, alo, ahi, blo, bhi))

\* M of ratio() = 2.0 * M / T
Matches(s1, s2) == MatchingSize(s1, s2, 1, Len(s1), 1, Len(s2))

\* similarity_score(s1, s2) = SequenceMatcher(None, s1, s2).ratio(), as the
\* fraction <<numerator, denominator>>: 2 * M / T, and 1.0 when T = 0
similarity_score(s1, s2) ==
    IF Len(s1) + Len(s2) = 0 THEN <<1, 1>>
    ELSE <<2 * Matches(s1, s2), Len(s1) + Len(s2)>>

\* The comparison with > in place of >=
SimilarityAbove(s1, s2, h) ==
    IF Len(s1) + Len(s2) = 0 THEN 100 > h
    ELSE 200 * Matches(s1, s2) > h * (Len(s1) + Len(s2))

\* similarity_score(s1, s2) >= h / 100; ratio() is 1.0 when both strings
\* are empty
SimilarityAtLeast(s1, s2, h) ==
    IF Len(s1) + Len(s2) = 0 THEN 100 >= h
    ELSE 200 * Matches(s1, s2) >= h * (Len(s1) + Len(s2))

----------------------------------------------------------------------------
(* extract_main_components                                                 *)

MainSeparators == <<<<"d", "a", "z", "u">>, <<"m", "i", "t">>, <<"u", "n", "d">>, <<",">>, <<"a", "n">>, <<"i", "n">>, <<"a", "u", "f">>>>

\* first_sep_pos (0-based)
FirstSeparatorPos(name) ==
    LET First(usable) == IF usable = {} THEN Len(name) ELSE Min(usable)
        Usable(found) == First({pos \in found : pos > 0 /\ pos < Len(name)})
    IN  Usable({Find(Lower(name), MainSeparators[k]) : k \in 1..Len(MainSeparators)})

\* extract_main_components(name)[0]
MainComponent(name) == Strip(Slice(name, 1, FirstSeparatorPos(name)))

----------------------------------------------------------------------------
(* are_duplicates                                                          *)

protein_keywords ==
    << {<<"r", "i", "n", "d">>,
        <<"r", "i", "n", "d", "f", "l", "e", "i", "s", "c", "h">>,
        <<"b", "e", "e", "f">>},
       {<<"s", "c", "h", "w", "e", "i", "n">>,
        <<"s", "c", "h", "w", "e", "i", "n", "e", "f", "l", "e", "i", "s", "c", "h">>,
        <<"p", "o", "r", "k">>},
       {<<"h", "ä", "h", "n", "c", "h", "e", "n">>,
        <<"h", "u", "h", "n">>,
        <<"h", "ü", "h", "n", "c", "h", "e", "n">>,
        <<"g", "e", "f", "l", "ü", "g", "e", "l">>,
        <<"p", "u", "t", "e">>,
        <<"c", "h", "i", "c", "k", "e", "n">>,
        <<"p", "o", "u", "l", "t", "r", "y">>},
       {<<"l", "a", "m", "m">>,
        <<"l", "a", "m", "m", "f", "l", "e", "i", "s", "c", "h">>,
        <<"l", "a", "m", "b">>},
       {<<"f", "i", "s", "c", "h">>,
        <<"f", "i", "s", "h">>,
        <<"l", "a", "c", "h", "s">>,
        <<"s", "e", "e", "l", "a", "c", "h", "s">>,
        <<"t", "h", "u", "n", "f", "i", "s", "c", "h">>} >>

\* What get_protein_type returns for a text without protein keyword (None)
NoProtein == 0

\* get_protein_type(text): the index of the first keyword group with a
\* keyword in the text, NoProtein when there is none
get_protein_type(text) ==
    LET First(hits) == IF hits = {} THEN NoProtein ELSE Min(hits)
    IN  First({g \in 1..Len(protein_keywords) :
                  \E keyword \in protein_keywords[g] : Contains(Lower(text), keyword)})

\* Lines 181-182: both names have a protein and the proteins differ
ProteinConflict(protein1, protein2) ==
    protein1 # NoProtein /\ protein2 # NoProtein /\ protein1 # protein2

\* Lines 194-202: the lower-cased, folded headline
DishNorm(name) == FoldGerman(Lower(extract_dish_name(name)))

\* Decide with the protein check moved behind the similarity checks
DecideVetoLast(norm1, norm2, dish1_norm, dish2_norm, th) ==
    IF norm1 = norm2 THEN TRUE
    ELSE IF SimilarityAtLeast(norm1, norm2, 95) THEN TRUE
    ELSE IF dish1_norm = dish2_norm /\ Len(dish1_norm) > 5 THEN TRUE
    ELSE IF SimilarityAtLeast(dish1_norm, dish2_norm, 90) /\ Len(dish1_norm) > 5 THEN TRUE
    ELSE IF SimilarityAtLeast(norm1, norm2, th) THEN TRUE
    ELSE IF ProteinConflict(get_protein_type(norm1), get_protein_type(norm2)) THEN FALSE
    ELSE SimilarityAtLeast(MainComponent(norm1), MainComponent(norm2), 92)

\* Lines 178-223 for the comparison texts and the headlines of two names
Decide(norm1, norm2, dish1_norm, dish2_norm, th) ==
    IF ProteinConflict(get_protein_type(norm1), get_protein_type(norm2)) THEN FALSE
    ELSE IF norm1 = norm2 THEN TRUE
    ELSE IF SimilarityAtLeast(norm1, norm2, 95) THEN TRUE
    ELSE IF dish1_norm = dish2_norm /\ Len(dish1_norm) > 5 THEN TRUE
    ELSE IF SimilarityAtLeast(dish1_norm, dish2_norm, 90) /\ Len(dish1_norm) > 5 THEN TRUE
    ELSE IF SimilarityAtLeast(norm1, norm2, th) THEN TRUE
    ELSE SimilarityAtLeast(MainComponent(norm1), MainComponent(norm2), 92)

\* are_duplicates(name1, name2, threshold), threshold in hundredths
are_duplicates(n1, n2, th) ==
    Decide(normalize_meal_name(n1).norm, normalize_meal_name(n2).norm,
           DishNorm(n1), DishNorm(n2), th)

\* threshold=0.88
DefaultThreshold == 88

----------------------------------------------------------------------------
(* The names of the model                                                  *)

\* "Reis"
NameReis == <<"R", "e", "i", "s">>
\* "Reis a"
NameReisA == <<"R", "e", "i", "s", " ", "a">>
\* "Reis b1, 3"
NameReisB13 == <<"R", "e", "i", "s", " ", "b", "1", ",", " ", "3">>
\* "a"
NameCodeA == <<"a">>
\* "b1, 3"
NameCodeB13 == <<"b", "1", ",", " ", "3">>
\* "Wok Bali"
NameWokBali == <<"W", "o", "k", " ", "B", "a", "l", "i">>
\* "Wok Bali Huhn"
NameWokBaliHuhn == <<"W", "o", "k", " ", "B", "a", "l", "i", " ", "H", "u", "h", "n">>
\* "Wok Bali Rind"
NameWokBaliRind == <<"W", "o", "k", " ", "B", "a", "l", "i", " ", "R", "i", "n", "d">>
\* "Pizza"
NamePizza == <<"P", "i", "z", "z", "a">>
\* "Nudeln & Sauce"
NameNudelnAmpSauce == <<"N", "u", "d", "e", "l", "n", " ", "&", " ", "S", "a", "u", "c", "e">>
\* "Nudeln - Sauce"
NameNudelnDashSauce == <<"N", "u", "d", "e", "l", "n", " ", "-", " ", "S", "a", "u", "c", "e">>
\* "Huhn Curry"
NameHuhnCurry == <<"H", "u", "h", "n", " ", "C", "u", "r", "r", "y">>

\* The raw meal names a database or an argument is drawn from
NamePool ==
    {NameReis,
     NameReisA,
     NameReisB13,
     NameCodeA,
     NameCodeB13,
     NameWokBali,
     NameWokBaliHuhn,
     NameWokBaliRind,
     NamePizza,
     NameNudelnAmpSauce,
     NameNudelnDashSauce,
     NameHuhnCurry}

----------------------------------------------------------------------------
(* choose_canonical_name                                                   *)

IngredientWords == {<<"G", "e", "m", "ü", "s", "e">>, <<"R", "e", "i", "s">>, <<"K", "a", "r", "t", "o", "f", "f", "e", "l", "n">>, <<"S", "a", "u", "c", "e">>}

\* The completeness score of a clean name, times 20 (so that the penalty
\* 0.05 per character off the ideal length 70 is the integer 1)
Score20(clean) ==
    40 * Len(Split(clean))
    + (IF Contains(Lower(clean), <<"d", "a", "z", "u">>) THEN 200 ELSE 0)
    + (IF Contains(Lower(clean), <<"m", "i", "t">>) THEN 100 ELSE 0)
    - (IF Len(clean) >= 70 THEN Len(clean) - 70 ELSE 70 - Len(clean))
    + (IF ~Contains(clean, <<" ", " ">>) THEN 40 ELSE 0)
    + (IF CountChar(clean, "-") <= 2 THEN 20 ELSE 0)
    + (IF \E word \in IngredientWords : Contains(clean, word) THEN 60 ELSE 0)

\* The entry (score, -length, clean) of `scored` for a name
Scored(name) ==
    LET Entry(clean) == <<Score20(clean), 0 - Len(clean), clean>>
    IN  Entry(normalize_meal_name(name).clean)

\* The clean texts of the names of the pool, computed once
CleanTable == [name \in NamePool |-> normalize_meal_name(name).clean] @@ <<>>

\* The names a meal table that started with names of the pool can hold:
\* apply_deduplication stores canonical names, which are clean texts
StoredNames == NamePool \cup {CleanTable[name] : name \in NamePool}

\* normalize_meal_name for every one of these names, computed once
NormalizeTable == [name \in StoredNames |-> normalize_meal_name(name)] @@ <<>>

\* normalize_meal_name(name), from the table when the name is in it
Normalized(name) ==
    IF name \in StoredNames THEN NormalizeTable[name] ELSE normalize_meal_name(name)

\* The entries of these names, computed once
ScoredTable == [name \in StoredNames |-> Scored(name)] @@ <<>>

\* The entry of `scored` that line 265 appends for a name
ScoredEntry(name) ==
    IF name \in StoredNames THEN ScoredTable[name] ELSE Scored(name)

\* The order of the sort without reverse=True
SortsBeforeAscending(x, y) == x[1] < y[1] \/ (x[1] = y[1] /\ x[2] < y[2])

\* x sorts before y under key (x[0], x[1]) with reverse=True
SortsBefore(x, y) == x[1] > y[1] \/ (x[1] = y[1] /\ x[2] > y[2])

\* choose_canonical_name returning the comparison text of the best entry
\* instead of its clean text
choose_canonical_name_norm(names) ==
    LET Top(scored) ==
            scored[Min({i \in 1..Len(scored) :
                           \A j \in 1..Len(scored) : ~SortsBefore(scored[j], scored[i])})][3]
    IN  Lower(Top([i \in 1..Len(names) |-> ScoredEntry(names[i])]))

\* choose_canonical_name returning the first name of the group as it is
choose_canonical_name_seed(names) == names[1]

\* choose_canonical_name(names): scored[0][2] after the stable sort, the
\* first entry in list order that no other entry sorts before
choose_canonical_name(names) ==
    LET Top(scored) ==
            scored[Min({i \in 1..Len(scored) :
                           \A j \in 1..Len(scored) : ~SortsBefore(scored[j], scored[i])})][3]
    IN  Top([i \in 1..Len(names) |-> ScoredEntry(names[i])] @@ <<>>)

----------------------------------------------------------------------------
(* Bounds                                                                  *)

\* The most rows the meal table starts with
MaxMeals == 3

\* The number of rows of the day table
MaxDays == 1

\* The most find_duplicate_groups calls in a row
MaxRuns == 2

\* The most names of a list the cluster pass is run on in any order
MaxNames == 4

----------------------------------------------------------------------------
(* find_duplicate_groups                                                   *)

\* are_duplicates(meal1, meal2) for every pair of the names a meal table
\* can hold, computed once
DuplicateTable ==
    [p \in StoredNames \X StoredNames |-> are_duplicates(p[1], p[2], DefaultThreshold)] @@ <<>>

\* are_duplicates(meal1, meal2) as the cluster pass calls it (line 300)
IsDuplicate(meal1, meal2) ==
    IF meal1 \in StoredNames /\ meal2 \in StoredNames
    THEN DuplicateTable[<<meal1, meal2>>]
    ELSE are_duplicates(meal1, meal2, DefaultThreshold)

\* sorted(S) for a set of names
RECURSIVE SortNames(_)
SortNames(S) ==
    LET Rest(first) == <<first>> \o SortNames(S \ {first})
    IN  IF S = {} THEN <<>>
        ELSE Rest(CHOOSE x \in S : \A y \in S \ {x} : StrLess(x, y))

\* SELECT DISTINCT name FROM meal ORDER BY name
SelectDistinctNames(mealTable) == SortNames({mealTable[id] : id \in DOMAIN mealTable})

\* processed kept from the call before instead of being created anew
InitialProcessedKept == processed

\* processed = set() (line 284)
InitialProcessed == {}

\* The scan without processed.add(meal2): a grouped name stays available
RECURSIVE ScanRemainingNotMarked(_, _, _, _, _)
ScanRemainingNotMarked(list, j, meal1, group, proc) ==
    LET Called(r) == [r EXCEPT !.calls = <<<<meal1, list[j]>>>> \o @]
    IN  IF j > Len(list) THEN [group |-> group, processed |-> proc, calls |-> <<>>]
        ELSE IF list[j] \in proc THEN ScanRemainingNotMarked(list, j + 1, meal1, group, proc)
        ELSE IF IsDuplicate(meal1, list[j])
             THEN Called(ScanRemainingNotMarked(list, j + 1, meal1, Append(group, list[j]), proc))
             ELSE Called(ScanRemainingNotMarked(list, j + 1, meal1, group, proc))

\* The scan comparing with the member added last instead of the seed
RECURSIVE ScanRemainingChained(_, _, _, _, _)
ScanRemainingChained(list, j, meal1, group, proc) ==
    LET Called(r) == [r EXCEPT !.calls = <<<<group[Len(group)], list[j]>>>> \o @]
    IN  IF j > Len(list) THEN [group |-> group, processed |-> proc, calls |-> <<>>]
        ELSE IF list[j] \in proc THEN ScanRemainingChained(list, j + 1, meal1, group, proc)
        ELSE IF IsDuplicate(group[Len(group)], list[j])
             THEN Called(ScanRemainingChained(list, j + 1, meal1, Append(group, list[j]),
                                       proc \cup {list[j]}))
             ELSE Called(ScanRemainingChained(list, j + 1, meal1, group, proc))

\* The scan ending at the first name that is no duplicate of the seed
RECURSIVE ScanRemainingBreaks(_, _, _, _, _)
ScanRemainingBreaks(list, j, meal1, group, proc) ==
    LET Called(r) == [r EXCEPT !.calls = <<<<meal1, list[j]>>>> \o @]
    IN  IF j > Len(list) THEN [group |-> group, processed |-> proc, calls |-> <<>>]
        ELSE IF list[j] \in proc THEN ScanRemainingBreaks(list, j + 1, meal1, group, proc)
        ELSE IF IsDuplicate(meal1, list[j])
             THEN Called(ScanRemainingBreaks(list, j + 1, meal1, Append(group, list[j]),
                                      proc \cup {list[j]}))
             ELSE Called([group |-> group, processed |-> proc, calls |-> <<>>])

\* The scan ending at the first duplicate of the seed it finds
RECURSIVE ScanRemainingUntilFound(_, _, _, _, _)
ScanRemainingUntilFound(list, j, meal1, group, proc) ==
    LET Called(r) == [r EXCEPT !.calls = <<<<meal1, list[j]>>>> \o @]
    IN  IF j > Len(list) THEN [group |-> group, processed |-> proc, calls |-> <<>>]
        ELSE IF list[j] \in proc THEN ScanRemainingUntilFound(list, j + 1, meal1, group, proc)
        ELSE IF IsDuplicate(meal1, list[j])
             THEN Called([group |-> Append(group, list[j]),
                          processed |-> proc \cup {list[j]}, calls |-> <<>>])
             ELSE Called(ScanRemainingUntilFound(list, j + 1, meal1, group, proc))

\* Lines 296-302: the scan of all_meals[j..] for duplicates of the seed meal1
RECURSIVE ScanRemaining(_, _, _, _, _)
ScanRemaining(list, j, meal1, group, proc) ==
    LET Called(r) == [r EXCEPT !.calls = <<<<meal1, list[j]>>>> \o @]
    IN  IF j > Len(list) THEN [group |-> group, processed |-> proc, calls |-> <<>>]
        ELSE IF list[j] \in proc THEN ScanRemaining(list, j + 1, meal1, group, proc)
        ELSE IF IsDuplicate(meal1, list[j])
             THEN Called(ScanRemaining(list, j + 1, meal1, Append(group, list[j]), proc \cup {list[j]}))
             ELSE Called(ScanRemaining(list, j + 1, meal1, group, proc))

\* Lines 287-305: the loop over all_meals from position i on
RECURSIVE GroupDuplicates(_, _, _, _)
GroupDuplicates(list, i, proc, groups) ==
    LET After(r, rest) == [rest EXCEPT !.calls = r.calls \o @]
        Continue(r) ==
            After(r, GroupDuplicates(list, i + 1, r.processed,
                                     IF Len(r.group) > 1 THEN Append(groups, r.group)
                                                         ELSE groups))
    IN  IF i > Len(list)
        THEN [duplicate_groups |-> groups, processed |-> proc, calls |-> <<>>]
        ELSE IF list[i] \in proc THEN GroupDuplicates(list, i + 1, proc, groups)
        ELSE Continue(ScanRemaining(list, i + 1, list[i], <<list[i]>>, proc \cup {list[i]}))

\* d[k] = v on a dict kept as the sequence of its <<key, value>> items in
\* insertion order
DictSet(d, k, v) ==
    IF \E i \in 1..Len(d) : d[i][1] = k
    THEN [i \in 1..Len(d) |-> IF d[i][1] = k THEN <<k, v>> ELSE d[i]]
    ELSE Append(d, <<k, v>>)

\* The loop of lines 317-318 that leaves out the first name of the group
RECURSIVE MapGroupAfterSeed(_, _, _, _)
MapGroupAfterSeed(d, group, i, canonical) ==
    IF i > Len(group) THEN d
    ELSE MapGroupAfterSeed(IF i = 1 THEN d ELSE DictSet(d, group[i], canonical),
                           group, i + 1, canonical)

\* Lines 317-318: canonical_mapping[name] = canonical for the names of
\* group[i..]
RECURSIVE MapGroup(_, _, _, _)
MapGroup(d, group, i, canonical) ==
    IF i > Len(group) THEN d
    ELSE MapGroup(DictSet(d, group[i], canonical), group, i + 1, canonical)

\* Lines 313-318: the canonical mapping of groups[g..]
RECURSIVE CanonicalMapping(_, _, _)
CanonicalMapping(d, groups, g) ==
    IF g > Len(groups) THEN d
    ELSE CanonicalMapping(MapGroup(d, groups[g], 1, choose_canonical_name(groups[g])),
                          groups, g + 1)

\* Lines 283-320 on the list all_meals: the pass and the mapping
ClusterPass(list) ==
    LET Results(r) ==
            [duplicate_groups  |-> r.duplicate_groups,
             processed         |-> r.processed,
             calls             |-> r.calls,
             canonical_mapping |-> CanonicalMapping(<<>>, r.duplicate_groups, 1)]
    IN  Results(GroupDuplicates(list, 1, InitialProcessed, <<>>))

----------------------------------------------------------------------------
(* apply_deduplication                                                     *)

\* The meal-reference columns of the day table that init_db_query creates
InitDbDayColumns == {"tagesgericht_id", "vegetarisch_id", "pizza_pasta_id"}

\* The columns apply_deduplication rewrites, in its order
AppliedColumns == <<"tagesgericht_id", "vegetarisch_id", "pizza_pasta_id", "wok_id">>

\* The day tables the tools are run on: the one of init_db_query, and one
\* that also has the wok_id column that the tools select and update
DaySchemas == {InitDbDayColumns, InitDbDayColumns \cup {"wok_id"}}

\* The statements executed whatever dry_run is
MutatesAlways(dry_run) == TRUE

\* `if not dry_run:` before every UPDATE and DELETE
Mutates(dry_run) == ~dry_run

\* The statement about to be executed is the one that raises: failAt is the
\* number of the failing cursor.execute of the call, 0 when none fails
Fails(st, failAt) == st.statements + 1 = failAt

\* An exception leaves the loop
Raise(st) == [st EXCEPT !.statements = @ + 1, !.raised = TRUE]

\* Lines 389-395: UPDATE day SET column = canonical_id WHERE column = old_id
\* for the columns cols; a column the table does not have raises
\* sqlite3.OperationalError
RECURSIVE UpdateReferences(_, _, _, _, _, _, _)
UpdateReferences(st, cols, old_id, canonical_id, dry_run, failAt, schema) ==
    IF cols = <<>> THEN st
    ELSE IF ~Mutates(dry_run)
         THEN UpdateReferences(st, Tail(cols), old_id, canonical_id, dry_run, failAt, schema)
    ELSE IF Fails(st, failAt) \/ cols[1] \notin schema THEN Raise(st)
    ELSE UpdateReferences(
             [st EXCEPT !.statements = @ + 1, !.dml = @ + 1, !.inTxn = TRUE,
                        !.day = [r \in DOMAIN st.day |->
                                    [st.day[r] EXCEPT ![cols[1]] =
                                        IF @ = old_id THEN canonical_id ELSE @]]],
             Tail(cols), old_id, canonical_id, dry_run, failAt, schema)

\* Lines 379-384: the canonical name is not stored, the old row is renamed
Rename(st, old_id, canonical_name, dry_run, failAt) ==
    IF ~Mutates(dry_run) THEN [st EXCEPT !.updates_made = @ + 1]
    ELSE IF Fails(st, failAt) THEN Raise(st)
    ELSE [st EXCEPT !.statements = @ + 1, !.dml = @ + 1, !.inTxn = TRUE,
                    !.meal = [@ EXCEPT ![old_id] = canonical_name],
                    !.updates_made = @ + 1]

\* Lines 397-402: DELETE FROM meal WHERE id = old_id, after the references
\* moved
DeleteOld(s, old_id, dry_run, failAt) ==
    IF s.raised THEN s
    ELSE IF ~Mutates(dry_run) THEN [s EXCEPT !.updates_made = @ + 1]
    ELSE IF Fails(s, failAt) THEN Raise(s)
    ELSE [s EXCEPT !.statements = @ + 1, !.dml = @ + 1, !.inTxn = TRUE,
                   !.meal = [id \in DOMAIN s.meal \ {old_id} |-> s.meal[id]],
                   !.updates_made = @ + 1]

\* The merge that deletes the old row and leaves the references alone
MergeReferencesKept(st, old_id, canonical_id, dry_run, failAt, schema) ==
    DeleteOld(st, old_id, dry_run, failAt)

\* Lines 386-402: the canonical name is stored, the references move to it
\* and the old row is deleted
Merge(st, old_id, canonical_id, dry_run, failAt, schema) ==
    DeleteOld(UpdateReferences(st, AppliedColumns, old_id, canonical_id,
                               dry_run, failAt, schema),
              old_id, dry_run, failAt)

\* SELECT id FROM meal WHERE name = ?
SelectIds(mealTable, name) == {id \in DOMAIN mealTable : mealTable[id] = name}

\* Line 380: SELECT id FROM meal WHERE name = canonical_name is executed
Lookup(st) == [st EXCEPT !.statements = @ + 1, !.lookups = @ + 1]

\* Line 370: SELECT id FROM meal WHERE name = old_name is executed
LookupOld(st, old_name) ==
    [st EXCEPT !.statements = @ + 1, !.lookups = @ + 1, !.looked = @ \cup {old_name}]

\* Lines 370-377: what the two SELECTs of an item returned, old_result[0]
\* and canonical_result[0] (NULL for no row), is noted in `found`
Found(st, old_name, canonical_name, old_id, canonical_id) ==
    [st EXCEPT !.found = Append(@, [old |-> old_name, canonical |-> canonical_name,
                                    old_id |-> old_id, canonical_id |-> canonical_id])]

\* Lines 376-402: the old name is stored under old_result; the canonical
\* name is looked up and the old row renamed or merged
ApplyFound(s1, old_name, old_result, canonical_name, dry_run, failAt, schema) ==
    LET Branch(s2, canonical_result) ==
            IF canonical_result = {}
            THEN Rename(Found(s2, old_name, canonical_name, Min(old_result), NULL),
                        Min(old_result), canonical_name, dry_run, failAt)
            ELSE Merge(Found(s2, old_name, canonical_name, Min(old_result),
                             Min(canonical_result)),
                       Min(old_result), Min(canonical_result), dry_run, failAt, schema)
    IN  IF old_result = {} THEN s1
        ELSE IF Fails(s1, failAt) THEN Raise(s1)
        ELSE Branch(Lookup(s1), SelectIds(s1.meal, canonical_name))

\* Lines 366-402: one item of the mapping
ApplyItem(st, old_name, canonical_name, dry_run, failAt, schema) ==
    IF old_name = canonical_name THEN st
    ELSE IF Fails(st, failAt) THEN Raise(st)
    ELSE ApplyFound(LookupOld(st, old_name), old_name, SelectIds(st.meal, old_name),
                    canonical_name,
                    dry_run, failAt, schema)

\* Lines 365-402: the loop over the items of the mapping from item k on
RECURSIVE ApplyLoop(_, _, _, _, _, _)
ApplyLoop(st, mapping, k, dry_run, failAt, schema) ==
    IF k > Len(mapping) \/ st.raised THEN st
    ELSE ApplyLoop(ApplyItem(st, mapping[k][1], mapping[k][2], dry_run, failAt, schema),
                   mapping, k + 1, dry_run, failAt, schema)

\* Lines 352-360: the state the loop starts in; BEGIN TRANSACTION unless
\* this is a dry run
BeginApply(dry_run) ==
    [meal |-> meal, day |-> day,
     committedMeal |-> committedMeal, committedDay |-> committedDay,
     inTxn |-> IF dry_run THEN inTransaction ELSE TRUE,
     log |-> IF dry_run THEN <<>> ELSE <<"BEGIN">>,
     statements |-> 0, lookups |-> 0, looked |-> {}, found |-> <<>>, dml |-> 0,
     updates_made |-> 0, raised |-> FALSE]

\* Lines 404-408: self.conn.commit() unless this is a dry run
AfterLoop(st, dry_run) ==
    IF ~dry_run
    THEN [st EXCEPT !.committedMeal = st.meal, !.committedDay = st.day,
                    !.inTxn = FALSE, !.log = Append(@, "COMMIT")]
    ELSE st

\* The exception handler without self.conn.rollback()
AfterExceptionNoRollback(st, dry_run) == st

\* Lines 410-414: self.conn.rollback() unless this is a dry run, then raise
AfterException(st, dry_run) ==
    IF ~dry_run
    THEN [st EXCEPT !.meal = st.committedMeal, !.day = st.committedDay,
                    !.inTxn = FALSE, !.log = Append(@, "ROLLBACK")]
    ELSE st

\* Lines 404-414 after the loop ended in st
EndApply(st, dry_run) ==
    IF st.raised THEN AfterException(st, dry_run) ELSE AfterLoop(st, dry_run)

\* apply_deduplication(canonical_mapping, dry_run) in which the failAt-th
\* statement raises: the state it ends in
ApplyResult(mapping, dry_run, failAt, schema) ==
    EndApply(ApplyLoop(BeginApply(dry_run), mapping, 1, dry_run, failAt, schema), dry_run)

----------------------------------------------------------------------------
(* The calendar: datetime.date as the scheduler uses it. A date is the     *)
(* record of its year, month and day; the ISO text "YYYY-MM-DD" of a day   *)
(* of the plan is kept as the fields datetime.fromisoformat reads from it. *)

\* date.toordinal(): 1 for 0001-01-01
ToOrdinal(date) ==
    LET DaysBeforeYear(p) == p * 365 + p \div 4 - p \div 100 + p \div 400
        IsLeap(y) == y % 4 = 0 /\ (y % 100 # 0 \/ y % 400 = 0)
        DaysBeforeMonth(y, m) ==
            <<0, 31, 59, 90, 120, 151, 181, 212, 243, 273, 304, 334>>[m]
            + (IF m > 2 /\ IsLeap(y) THEN 1 ELSE 0)
    IN  DaysBeforeYear(date.year - 1) + DaysBeforeMonth(date.year, date.month) + date.day

\* date.isocalendar()[1]: the ISO week number of the date; week 1 of a year
\* is the week that holds its first Thursday
IsoWeek(date) ==
    LET Monday(firstday, firstweekday) ==
            IF firstweekday > 3 THEN firstday - firstweekday + 7
                                ELSE firstday - firstweekday
        From(firstday) == Monday(firstday, (firstday + 6) % 7)
        IsoWeek1Monday(y) == From(ToOrdinal([year |-> y, month |-> 1, day |-> 1]))
        Week(today, week) ==
            IF week < 0 THEN (today - IsoWeek1Monday(date.year - 1)) \div 7 + 1
            ELSE IF week >= 52 /\ today >= IsoWeek1Monday(date.year + 1) THEN 1
            ELSE week + 1
        Of(today) == Week(today, (today - IsoWeek1Monday(date.year)) \div 7)
    IN  Of(ToOrdinal(date))

----------------------------------------------------------------------------
(* The mealplan table and the scheduler job (app/database.py,              *)
(* app/scheduler.py)                                                       *)

\* The categories of a day; the columns tagesgericht_id, vegetarisch_id and
\* pizza_pasta_id of table day take their meals in this order
Categories == <<"Tagesgericht", "Vegetarisch", "Pizza & Pasta">>

\* Mealplan(year, week, days) of app/models.py; days is the dict of the
\* days as the sequence of its values in insertion order, each with its key
\* date, and the dict meals of a day is the sequence of its items
Mealplan(year, week, days) == [year |-> year, week |-> week, days |-> days]

\* fetch_mealplan(year, week): <<>> for None, otherwise the one-element
\* sequence of the Mealplan read from the three tables
fetch_mealplan(db, year, week) ==
    LET MealName(id) == IF id = NULL THEN NULL ELSE db.meal[id]
        DayOf(row) ==
            [date |-> row.date, weekday |-> row.weekday,
             meals |-> <<<<Categories[1], MealName(row.tagesgericht_id)>>,
                         <<Categories[2], MealName(row.vegetarisch_id)>>,
                         <<Categories[3], MealName(row.pizza_pasta_id)>>>>]
        Days(rows) == [k \in 1..Len(rows) |-> DayOf(rows[k])]
        Build(id) ==
            <<Mealplan(db.mealplan[id].year, db.mealplan[id].week,
                       Days(SelectSeq(db.day, LAMBDA row : row.mealplan_id = id)))>>
        First(ids) == IF ids = {} THEN <<>> ELSE Build(Min(ids))
    IN  First({id \in 1..Len(db.mealplan) :
                  db.mealplan[id].year = year /\ db.mealplan[id].week = week})

\* Lines 63-72 of create_mealplan for the items meals[k..] of a day: INSERT
\* OR IGNORE of the text into table meal, then its id into meal_ids
RECURSIVE InsertMeals(_, _, _, _)
InsertMeals(mealTable, meals, k, meal_ids) ==
    LET Stored(t) ==
            InsertMeals(t, meals, k + 1,
                        [meal_ids EXCEPT ![meals[k][1]] =
                            CHOOSE id \in 1..Len(t) : t[id] = meals[k][2]])
    IN  IF k > Len(meals) THEN [meal |-> mealTable, meal_ids |-> meal_ids]
        ELSE IF \E id \in 1..Len(mealTable) : mealTable[id] = meals[k][2]
             THEN Stored(mealTable)
             ELSE Stored(Append(mealTable, meals[k][2]))

\* Lines 54-86 of create_mealplan for the days days[k..] of the plan
RECURSIVE InsertDays(_, _, _, _)
InsertDays(db, days, k, mealplan_id) ==
    LET Row(ids) ==
            [mealplan_id     |-> mealplan_id,
             date            |-> days[k].date,
             weekday         |-> days[k].weekday,
             tagesgericht_id |-> ids[Categories[1]],
             vegetarisch_id  |-> ids[Categories[2]],
             pizza_pasta_id  |-> ids[Categories[3]]]
        With(r) ==
            InsertDays([db EXCEPT !.meal = r.meal, !.day = Append(db.day, Row(r.meal_ids))],
                       days, k + 1, mealplan_id)
    IN  IF k > Len(days) THEN db
        ELSE With(InsertMeals(db.meal, days[k].meals, 1,
                              [c \in {Categories[j] : j \in 1..3} |-> NULL]))

\* create_mealplan(data) on the database db. The INSERT of line 48 violates
\* week INTEGER NOT NULL UNIQUE (line 9) when a row with the week of data is
\* stored, whatever its year; the call then rolls back and raises, otherwise
\* it stores the days and commits
create_mealplan(db, data) ==
    IF \E id \in 1..Len(db.mealplan) : db.mealplan[id].week = data.week
    THEN [db |-> db, raised |-> TRUE]
    ELSE [db |-> InsertDays([db EXCEPT !.mealplan = Append(db.mealplan,
                                                     [year |-> data.year, week |-> data.week])],
                            data.days, 1, Len(db.mealplan) + 1),
          raised |-> FALSE]

\* get_current_week_range() on the date of today
get_current_week_range(today) ==
    LET Block(current_week) ==
            IF current_week % 2 = 0 THEN <<current_week, current_week + 1>>
                                    ELSE <<current_week - 1, current_week>>
    IN  Block(IsoWeek(today))

\* Lines 80-88: the days of the parsed plan whose date is in the given week
DaysOfWeek(days, week) == SelectSeq(days, LAMBDA d : IsoWeek(d.date) = week)

\* download_and_parse_pdf() on the date today, the database db, the archive
\* files and what the site serves: a record with status "unavailable" when
\* the request fails or is answered with an error status, otherwise with
\* status "ok" and the days extract_meals finds in the document (none:
\* extract_meals returns {}). The result is the database and the files the
\* call leaves, what it returns, and whether it sent the request
download_and_parse_pdf(today, db, files, served) ==
    LET year == today.year
        Result(d, f, value, requested) ==
            [db |-> d, archive |-> f, value |-> value, requested |-> requested]
        Second(r1, f, second_week, week2_days, week2_exists) ==
            LET Stored(r2) == Result(r2.db, f, IF r2.raised THEN False ELSE True, TRUE)
            IN  IF r1.raised THEN Result(r1.db, f, False, TRUE)
                ELSE IF week2_days # <<>> /\ ~week2_exists
                     THEN Stored(create_mealplan(r1.db, Mealplan(year, second_week, week2_days)))
                     ELSE Result(r1.db, f, True, TRUE)
        First(first_week, week1_days, week1_exists) ==
            IF week1_days # <<>> /\ ~week1_exists
            THEN create_mealplan(db, Mealplan(year, first_week, week1_days))
            ELSE [db |-> db, raised |-> FALSE]
        Store(f, first_week, second_week, week1_exists, week2_exists) ==
            Second(First(first_week, DaysOfWeek(served.days, first_week), week1_exists),
                   f, second_week, DaysOfWeek(served.days, second_week), week2_exists)
        Run(first_week, second_week, week1_exists, week2_exists) ==
            IF week1_exists /\ week2_exists THEN Result(db, files, True, FALSE)
            ELSE IF served.status # "ok" THEN Result(db, files, False, TRUE)
            ELSE IF served.days = <<>> THEN Result(db, files \cup {first_week}, False, TRUE)
            ELSE Store(files \cup {first_week}, first_week, second_week,
                       week1_exists, week2_exists)
        Check(range) ==
            Run(range[1], range[2],
                fetch_mealplan(db, year, range[1]) # <<>>,
                fetch_mealplan(db, year, range[2]) # <<>>)
    IN  Check(get_current_week_range(today))

\* The dates on which the job runs, in order: Thursday of ISO week 1 of
\* 2025, days of the weeks 6 and 7 of 2025, the Monday of ISO week 1 of 2026
\* (29 December 2025), days of the weeks 6 and 7 of 2026
Clock ==
    <<[year |-> 2025, month |-> 1, day |-> 2], [year |-> 2025, month |-> 2, day |-> 3],
      [year |-> 2025, month |-> 2, day |-> 12], [year |-> 2025, month |-> 12, day |-> 29],
      [year |-> 2026, month |-> 2, day |-> 2], [year |-> 2026, month |-> 2, day |-> 11]>>

\* What the site can serve: nothing, a document without a plan, a document
\* with one day, or one with a day of each of two weeks that follow each
\* other. The days are the first job date and the Mondays of the weeks of
\* the other job dates; a day has two dishes in 2025 and one of them again
\* in 2026, and its header cell prints its weekday
Documents ==
    LET Date(y, m, d) == [year |-> y, month |-> m, day |-> d]
        PlanDates ==
            <<Date(2025, 1, 2), Date(2025, 2, 3), Date(2025, 2, 10),
              Date(2025, 12, 29), Date(2026, 2, 2), Date(2026, 2, 9)>>
        HeaderWeekday(date) ==
            <<"Montag", "Dienstag", "Mittwoch", "Donnerstag", "Freitag", "Samstag", "Sonntag">>
                [((ToOrdinal(date) + 6) % 7) + 1]
        PlanDay(date) ==
            [date |-> date, weekday |-> HeaderWeekday(date),
             meals |-> IF date.year = 2025
                       THEN <<<<Categories[1], NameReis>>, <<Categories[3], NamePizza>>>>
                       ELSE <<<<Categories[1], NameReis>>>>]
        Document(days) == [status |-> "ok", days |-> days]
    IN  {[status |-> "unavailable", days |-> <<>>], Document(<<>>)}
        \cup {Document(<<PlanDay(PlanDates[i])>>) : i \in 1..Len(PlanDates)}
        \cup {Document(<<PlanDay(PlanDates[i]), PlanDay(PlanDates[i + 1])>>) : i \in {2, 5}}

----------------------------------------------------------------------------
(* The tool on a database                                                  *)

\* The record of an apply_deduplication call before any was made
NoCall ==
    [op |-> "none", mapping |-> <<>>, dry_run |-> FALSE, raised |-> FALSE,
     updates_made |-> 0, log |-> <<>>, statements |-> 0, lookups |-> 0, looked |-> {},
     found |-> <<>>, dml |-> 0,
     beforeMeal |-> <<>>, beforeDay |-> <<>>]

\* The threshold arguments are_duplicates is called with, in hundredths:
\* the default and values below, between and above the fixed thresholds
ThresholdChoices == {0, 50, DefaultThreshold, 93, 101}

\* The meal id in column number j of day row k, for n meals and offset o;
\* every meal and NULL are referenced as o varies
Reference(o, k, j, n) ==
    IF (o + k + j) % (n + 1) = 0 THEN NULL ELSE (o + k + j) % (n + 1)

\* None of the text functions was called on its own
NoReturn == [op |-> "none"]

\* Neither are_duplicates nor a pass on a given list is in use
PureIdle ==
    /\ name1 = <<>>
    /\ name2 = <<>>
    /\ threshold = DefaultThreshold
    /\ verdict = None
    /\ returned = NoReturn
    /\ all_meals = <<>>

\* The service has stored no plan and fetched no document
ServiceIdle ==
    /\ mealplan = <<>>
    /\ now = Clock[1]
    /\ pdf = [status |-> "unavailable", days |-> <<>>]
    /\ archive = {}

\* Nothing was found or applied yet
ToolIdle ==
    /\ inTransaction = FALSE
    /\ processed = {}
    /\ duplicate_groups = <<>>
    /\ canonical_mapping = <<>>
    /\ runs = 0
    /\ lastCall = NoCall
    /\ evaluated = <<>>

\* A database as create_mealplan leaves it: distinct meal names with the
\* ids 1..n, day rows that reference stored meals or NULL, all committed
Init ==
    /\ \E batch \in SUBSET NamePool :
          /\ Cardinality(batch) <= MaxMeals
          /\ meal = SortNames(batch)
    /\ dayColumns \in DaySchemas
    /\ \E o \in 0..Len(meal) :
          day = [k \in 1..MaxDays |->
                    [c \in dayColumns |->
                        Reference(o, k, CHOOSE j \in 1..Len(AppliedColumns) : AppliedColumns[j] = c,
                                  Len(meal))]]
    /\ committedMeal = meal
    /\ committedDay = day
    /\ ToolIdle
    /\ ServiceIdle
    /\ PureIdle

\* find_duplicate_groups(), the first call of every run of the tool: the
\* outcome of an apply_deduplication call of an earlier run is gone
FindDuplicateGroups ==
    /\ runs < MaxRuns
    /\ all_meals' = SelectDistinctNames(meal)
    /\ LET Return(r) ==
               /\ processed' = r.processed
               /\ duplicate_groups' = r.duplicate_groups
               /\ canonical_mapping' = r.canonical_mapping
               /\ evaluated' = r.calls
       IN  Return(ClusterPass(all_meals'))
    /\ runs' = runs + 1
    /\ lastCall' = NoCall
    /\ UNCHANGED <<meal, day, committedMeal, committedDay, dayColumns, inTransaction,
                   name1, name2, threshold, verdict, returned,
                   mealplan, now, pdf, archive>>

\* apply_deduplication(canonical_mapping, dry_run) with the mapping that
\* find_duplicate_groups returned last; the failAt-th statement raises
ApplyDeduplication(dry_run, failAt) ==
    /\ runs > 0
    /\ LET Return(st) ==
           /\ meal' = st.meal
           /\ day' = st.day
           /\ committedMeal' = st.committedMeal
           /\ committedDay' = st.committedDay
           /\ inTransaction' = st.inTxn
           /\ lastCall' = [op |-> "apply", mapping |-> canonical_mapping,
                           dry_run |-> dry_run, raised |-> st.raised,
                           updates_made |-> st.updates_made, log |-> st.log,
                           statements |-> st.statements, lookups |-> st.lookups,
                           looked |-> st.looked, found |-> st.found,
                           dml |-> st.dml, beforeMeal |-> meal, beforeDay |-> day]
           /\ runs' = 0
       IN  Return(ApplyResult(canonical_mapping, dry_run, failAt, dayColumns))
    /\ UNCHANGED <<dayColumns, processed, duplicate_groups, canonical_mapping,
                   name1, name2, threshold, verdict, returned, all_meals, evaluated,
                   mealplan, now, pdf, archive>>

\* The number of statements the call executes when none is made to fail
Statements(dry_run) == ApplyResult(canonical_mapping, dry_run, 0, dayColumns).statements

Next ==
    \/ FindDuplicateGroups
    \/ \E dry_run \in BOOLEAN : \E failAt \in 0..Statements(dry_run) :
          ApplyDeduplication(dry_run, failAt)

Spec == Init /\ [][Next]_vars

----------------------------------------------------------------------------
(* are_duplicates on its own                                               *)

EmptyDatabase ==
    /\ meal = <<>>
    /\ day = <<>>
    /\ committedMeal = <<>>
    /\ committedDay = <<>>
    /\ dayColumns = InitDbDayColumns

InitPredicate ==
    /\ name1 \in NamePool
    /\ name2 \in NamePool
    /\ threshold \in ThresholdChoices
    /\ verdict = None
    /\ returned = NoReturn
    /\ all_meals = <<>>
    /\ EmptyDatabase
    /\ ToolIdle
    /\ ServiceIdle

\* verdict = are_duplicates(name1, name2, threshold)
AreDuplicates ==
    /\ verdict = None
    /\ verdict' = IF are_duplicates(name1, name2, threshold) THEN True ELSE False
    /\ UNCHANGED <<meal, day, committedMeal, committedDay, dayColumns, inTransaction,
                   processed, duplicate_groups, canonical_mapping, runs, lastCall,
                   name1, name2, threshold, returned, all_meals, evaluated,
                   mealplan, now, pdf, archive>>

NextPredicate == AreDuplicates

SpecPredicate == InitPredicate /\ [][NextPredicate]_vars

----------------------------------------------------------------------------
(* The cluster pass on a list in any order                                 *)

\* The lists of n distinct names of the pool
Orderings(n) ==
    {list \in [1..n -> NamePool] : \A i, j \in 1..n : i # j => list[i] # list[j]}

InitOrder ==
    /\ \E n \in 1..MaxNames : all_meals \in Orderings(n)
    /\ name1 = <<>>
    /\ name2 = <<>>
    /\ threshold = DefaultThreshold
    /\ verdict = None
    /\ returned = NoReturn
    /\ EmptyDatabase
    /\ ToolIdle
    /\ ServiceIdle

\* Lines 283-320 of find_duplicate_groups on the list all_meals
RunClusterPass ==
    /\ runs = 0
    /\ LET Return(r) ==
               /\ processed' = r.processed
               /\ duplicate_groups' = r.duplicate_groups
               /\ canonical_mapping' = r.canonical_mapping
               /\ evaluated' = r.calls
       IN  Return(ClusterPass(all_meals))
    /\ runs' = 1
    /\ UNCHANGED <<meal, day, committedMeal, committedDay, dayColumns, inTransaction,
                   lastCall, name1, name2, threshold, verdict, returned, all_meals,
                   mealplan, now, pdf, archive>>

NextOrder == RunClusterPass

SpecOrder == InitOrder /\ [][NextOrder]_vars

----------------------------------------------------------------------------
(* Properties of find_duplicate_groups and choose_canonical_name           *)

\* The members of a group, as a set
Members(group) == {group[k] : k \in 1..Len(group)}

\* The clean texts of the members of a group
CleanTexts(group) == {Normalized(group[k]).clean : k \in 1..Len(group)}

\* The keys of the canonical mapping
Keys == {canonical_mapping[i][1] : i \in 1..Len(canonical_mapping)}

\* canonical_mapping[name]
MappedTo(name) ==
    canonical_mapping[CHOOSE i \in 1..Len(canonical_mapping) : canonical_mapping[i][1] = name][2]

\* The groups of the last call
Groups == {duplicate_groups[g] : g \in 1..Len(duplicate_groups)}

\* The names of the pool in sorted order, computed once
SortedPool == SortNames(NamePool)

\* A name of the list all_meals
InAllMeals(name) == \E i \in 1..Len(all_meals) : all_meals[i] = name

\* The names of all_meals in sorted order
SortedAllMeals == SelectSeq(SortedPool, InAllMeals)

\* C1 as stated, for the groups whose members all have a clean text: the
\* canonical name of the group is one of the raw strings of the group.
C1_CanonicalIsMember ==
    \A group \in Groups :
        <<>> \notin CleanTexts(group) => MappedTo(group[1]) \in Members(group)

\* C1, amended: every group has one canonical name, shared by all its
\* members, and it is the clean text (the name without codes and
\* parentheses, as normalize_meal_name returns it) of a member of the group.
C1_CanonicalIsCleanTextOfMember ==
    \A group \in Groups :
        /\ MappedTo(group[1]) \in CleanTexts(group)
        /\ \A name \in Members(group) : MappedTo(name) = MappedTo(group[1])

\* A group of names that all carry codes: its canonical name is the clean
\* text of a member and is not one of its members
C1_Witness ==
    \E group \in Groups :
        /\ <<>> \notin CleanTexts(group)
        /\ MappedTo(group[1]) \notin Members(group)
        /\ MappedTo(group[1]) \in CleanTexts(group)

\* C2 as stated: in the canonical mapping no key maps to itself.
C2_NoKeyMapsToItself ==
    \A name \in Keys : MappedTo(name) # name

\* C2, amended: every member of every group is a key of the mapping, and a
\* key maps to itself only when it is the clean text of a member of its
\* group, that is, when the stored name already is the canonical name.
C2_SelfMapOnlyOfCleanText ==
    \A group \in Groups : \A name \in Members(group) :
        /\ name \in Keys
        /\ MappedTo(name) = name => name \in CleanTexts(group)

\* A group with a member that is stored without codes: that member is a
\* key and maps to itself, the other members map to it
C2_Witness ==
    \E group \in Groups : \E name, other \in Members(group) :
        /\ MappedTo(name) = name
        /\ other # name
        /\ MappedTo(other) = name

\* C5: the groups are pairwise disjoint, each has at least two members,
\* every member is a name of the input list, and no name occurs twice in a
\* group.
C5_GroupsDisjointOfInput ==
    \A g \in 1..Len(duplicate_groups) :
        /\ Len(duplicate_groups[g]) >= 2
        /\ Members(duplicate_groups[g]) \subseteq Members(all_meals)
        /\ \A j, k \in 1..Len(duplicate_groups[g]) :
              j # k => duplicate_groups[g][j] # duplicate_groups[g][k]
        /\ \A h \in 1..Len(duplicate_groups) :
              g # h => Members(duplicate_groups[g]) \cap Members(duplicate_groups[h]) = {}

\* Two groups were emitted for a list that is not in sorted order
C5_Witness ==
    /\ Len(duplicate_groups) = 2
    /\ all_meals # SortedAllMeals

\* The position of a name in a list of distinct names
Position(list, name) == CHOOSE i \in 1..Len(list) : list[i] = name

\* C6: in every group the first member, the seed, is the earliest of the
\* members in input order, and every other member is a duplicate of the
\* seed. (That two other members need not be duplicates of each other is
\* what C6_Witness shows.)
C6_SeedDriven ==
    \A group \in Groups : \A k \in 2..Len(group) :
        /\ Position(all_meals, group[1]) < Position(all_meals, group[k])
        /\ IsDuplicate(group[1], group[k])

\* A group with two members besides the seed that are no duplicates of each
\* other, in either direction
C6_Witness ==
    \E group \in Groups : \E j, k \in 2..Len(group) :
        /\ j # k
        /\ ~IsDuplicate(group[j], group[k])
        /\ ~IsDuplicate(group[k], group[j])

\* C7: a find_duplicate_groups call that follows another one, with no
\* apply_deduplication between them, returns the groups and the mapping of
\* the call before.
C7_FindIsIdempotent ==
    [][(runs > 0 /\ runs' = runs + 1)
           => (duplicate_groups' = duplicate_groups /\ canonical_mapping' = canonical_mapping)]_vars

\* The second call in a row returned a group
C7_Witness ==
    /\ runs = 2
    /\ duplicate_groups # <<>>

\* The groups of a pass as a set of sets of names
GroupSets(groups) == {Members(groups[g]) : g \in 1..Len(groups)}

\* The groups the pass emits for the names of all_meals in sorted order
SortedPassGroups ==
    GroupSets(GroupDuplicates(SortedAllMeals, 1, InitialProcessed, <<>>).duplicate_groups)

\* are_duplicates is symmetric and transitive on the names of all_meals
PredicateIsEquivalence ==
    /\ \A x, y \in Members(all_meals) : IsDuplicate(x, y) => IsDuplicate(y, x)
    /\ \A x, y, z \in Members(all_meals) :
          IsDuplicate(x, y) /\ IsDuplicate(y, z) => IsDuplicate(x, z)

\* C8 as stated: the pass on the names in any order emits the same set of
\* groups as the pass on the same names in sorted order (so any two orders
\* agree).
C8_OrderInsensitive ==
    runs > 0 => GroupSets(duplicate_groups) = SortedPassGroups

\* C8, amended: the pass on the names in any order emits the same set of
\* groups as the pass on the same names in sorted order whenever
\* are_duplicates is symmetric and transitive on these names.
C8_OrderInsensitiveOnEquivalence ==
    (runs > 0 /\ PredicateIsEquivalence) => GroupSets(duplicate_groups) = SortedPassGroups

\* The pass ran on a list that is not in sorted order, on which
\* are_duplicates is symmetric and transitive, and emitted a group
C8_Witness ==
    /\ runs > 0
    /\ PredicateIsEquivalence
    /\ all_meals # SortedAllMeals
    /\ duplicate_groups # <<>>

----------------------------------------------------------------------------
(* Properties of are_duplicates                                            *)

\* The protein type are_duplicates finds for a name (lines 176-179)
ProteinOf(name) == get_protein_type(Normalized(name).norm)

\* C3: when both names have a protein type and the two differ,
\* are_duplicates returns False, for every threshold.
C3_ProteinVeto ==
    (/\ verdict # None
     /\ ProteinOf(name1) # NoProtein
     /\ ProteinOf(name2) # NoProtein
     /\ ProteinOf(name1) # ProteinOf(name2)) => verdict = False

\* Two names with different proteins whose headlines are equal and longer
\* than five characters and whose comparison texts reach the threshold were
\* found to be no duplicates
C3_Witness ==
    /\ verdict = False
    /\ ProteinOf(name1) # NoProtein
    /\ ProteinOf(name2) # NoProtein
    /\ ProteinOf(name1) # ProteinOf(name2)
    /\ DishNorm(name1) = DishNorm(name2)
    /\ Len(DishNorm(name1)) > 5
    /\ SimilarityAtLeast(Normalized(name1).norm, Normalized(name2).norm, threshold)

\* C4: are_duplicates with the default threshold returns False for every
\* pair of distinct names of which at least one has an empty clean text.
C4_EmptyCleanTextNeverMerged ==
    (/\ verdict # None
     /\ threshold = DefaultThreshold
     /\ name1 # name2
     /\ (Normalized(name1).clean = <<>> \/ Normalized(name2).clean = <<>>)) => verdict = False

----------------------------------------------------------------------------
(* Properties of apply_deduplication                                       *)

\* Every meal reference of the day table is NULL or the id of a meal row
NoDanglingReference ==
    \A r \in DOMAIN day : \A c \in DOMAIN day[r] : day[r][c] = NULL \/ day[r][c] \in DOMAIN meal

\* C9: when a call with dry_run=False raises, the transaction was rolled
\* back: the meal and day tables are as before the call, nothing of the
\* call was committed, no transaction is open, no day row references a
\* missing meal, and the exception left the call.
C9_FailedApplyIsRolledBack ==
    (lastCall.op = "apply" /\ ~lastCall.dry_run /\ lastCall.raised) =>
        /\ meal = lastCall.beforeMeal
        /\ day = lastCall.beforeDay
        /\ committedMeal = lastCall.beforeMeal
        /\ committedDay = lastCall.beforeDay
        /\ ~inTransaction
        /\ lastCall.log = <<"BEGIN", "ROLLBACK">>
        /\ NoDanglingReference

\* A call with dry_run=False raised after it had moved the references of a
\* row and deleted the row
C9_Witness ==
    /\ lastCall.op = "apply"
    /\ ~lastCall.dry_run
    /\ lastCall.raised
    /\ lastCall.dml >= 5

\* The keys of the mapping of the last apply_deduplication call
CallKeys == {lastCall.mapping[i][1] : i \in 1..Len(lastCall.mapping)}

\* The keys of that mapping that differ from their canonical name
CallKeysToMerge ==
    {lastCall.mapping[i][1] : i \in {j \in 1..Len(lastCall.mapping) :
                                        lastCall.mapping[j][1] # lastCall.mapping[j][2]}}

\* A call with dry_run=True left the tables as they were, executed no
\* UPDATE or DELETE and neither began nor ended a transaction
DryRunLeftStorage ==
    /\ meal = lastCall.beforeMeal
    /\ day = lastCall.beforeDay
    /\ committedMeal = lastCall.beforeMeal
    /\ committedDay = lastCall.beforeDay
    /\ lastCall.dml = 0
    /\ lastCall.log = <<>>
    /\ ~inTransaction

\* C10 as stated: a call with dry_run=True looks up every entry of the
\* mapping and leaves the tables unchanged, with no transaction opened or
\* committed.
C10_DryRunLooksUpEveryEntry ==
    (lastCall.op = "apply" /\ lastCall.dry_run) =>
        /\ DryRunLeftStorage
        /\ ~lastCall.raised => lastCall.looked = CallKeys

\* C10, amended: a call with dry_run=True leaves the tables unchanged, with
\* no transaction opened or committed, and looks up every entry of the
\* mapping whose key differs from its canonical name; an entry that maps
\* to itself is skipped without a lookup.
C10_DryRunLooksUpEveryEntryToMerge ==
    (lastCall.op = "apply" /\ lastCall.dry_run) =>
        /\ DryRunLeftStorage
        /\ ~lastCall.raised => lastCall.looked = CallKeysToMerge

\* A call with dry_run=True returned after it looked up two entries and
\* counted them as updates
C10_Witness ==
    /\ lastCall.op = "apply"
    /\ lastCall.dry_run
    /\ ~lastCall.raised
    /\ Cardinality(lastCall.looked) = 2
    /\ lastCall.updates_made = 2

----------------------------------------------------------------------------
(* Properties of a successful apply_deduplication                          *)

\* The items of the mapping of the last call, and what the call found for
\* them
CallItems == {lastCall.mapping[i] : i \in 1..Len(lastCall.mapping)}
CallFound == {lastCall.found[i] : i \in 1..Len(lastCall.found)}

\* The last call was made with dry_run=False and returned
AppliedCall == lastCall.op = "apply" /\ ~lastCall.dry_run /\ ~lastCall.raised

\* A row of the canonical name existed when the item was looked up
Merged(f) == f.canonical_id # NULL

\* Every reference to the old row in every column of the day table now is
\* a reference to the canonical row, and the old row is gone
MergedInto(f) ==
    /\ f.old_id \notin DOMAIN meal
    /\ f.canonical_id \in DOMAIN meal
    /\ \A r \in DOMAIN day : \A c \in DOMAIN day[r] :
          /\ day[r][c] # f.old_id
          /\ lastCall.beforeDay[r][c] = f.old_id => day[r][c] = f.canonical_id

\* The old row has its id and the canonical name
RenamedInPlace(f) ==
    /\ f.old_id \in DOMAIN meal
    /\ meal[f.old_id] = f.canonical

----------------------------------------------------------------------------
(* choose_canonical_name on its own                                        *)

\* Meal names for groups of two
\* 60 characters
NameFrikadelle60 == <<"F", "r", "i", "k", "a", "d", "e", "l", "l", "e", " ", "m", "i", "t", " ", "R", "a", "h", "m", "w", "i", "r", "s", "i", "n", "g", " ", "S", "t", "a", "m", "p", "f", "k", "a", "r", "t", "o", "f", "f", "e", "l", " ", "B", "r", "a", "t", "e", "n", "j", "u", "s", " ", "D", "e", "s", "s", "e", "r", "t">>
\* 80 characters
NameFrikadelle80 == <<"F", "r", "i", "k", "a", "d", "e", "l", "l", "e", " ", "m", "i", "t", " ", "R", "a", "h", "m", "w", "i", "r", "s", "i", "n", "g", "g", "e", "m", "u", "e", "s", "e", " ", "P", "e", "t", "e", "r", "s", "i", "l", "i", "e", "n", "s", "t", "a", "m", "p", "f", "k", "a", "r", "t", "o", "f", "f", "e", "l", " ", "B", "r", "a", "t", "e", "n", "j", "u", "s", " ", "N", "a", "c", "h", "t", "i", "s", "c", "h">>

\* The name with the word "dazu" put after its first k words
WithDazu(name, k) ==
    LET Put(words) ==
            Join(SubSeq(words, 1, k) \o <<<<"d", "a", "z", "u">>>> \o SubSeq(words, k + 1, Len(words)))
    IN  Put(Split(name))

\* Where the word is put
DazuPositions == {0, 1}

\* The short names without the word
PlainNames ==
    {
     \* "Schnitzel Pommes"
     <<"S", "c", "h", "n", "i", "t", "z", "e", "l", " ", "P", "o", "m", "m", "e", "s">>,
     \* "Nudeln a, c"
     <<"N", "u", "d", "e", "l", "n", " ", "a", ",", " ", "c">>,
     NameReis}

\* The names the groups are made of: the short names without and with the
\* word, and the two long names, one of them also with the word
CandidatePool ==
    PlainNames \cup {WithDazu(name, k) : name \in PlainNames, k \in DazuPositions}
    \cup {NameFrikadelle60, NameFrikadelle80, WithDazu(NameFrikadelle80, 1)}

InitCanonical ==
    /\ name1 \in CandidatePool
    /\ name2 \in CandidatePool
    /\ name1 # name2
    /\ threshold = DefaultThreshold
    /\ verdict = None
    /\ returned = NoReturn
    /\ all_meals = <<>>
    /\ EmptyDatabase
    /\ ToolIdle
    /\ ServiceIdle

\* returned = choose_canonical_name([name1, name2])
ChooseCanonicalName ==
    /\ returned.op = "none"
    /\ returned' = [op |-> "choose_canonical_name",
                    value |-> choose_canonical_name(<<name1, name2>>)]
    /\ UNCHANGED <<meal, day, committedMeal, committedDay, dayColumns, inTransaction,
                   processed, duplicate_groups, canonical_mapping, runs, lastCall,
                   name1, name2, threshold, verdict, all_meals, evaluated,
                   mealplan, now, pdf, archive>>

NextCanonical == ChooseCanonicalName

SpecCanonical == InitCanonical /\ [][NextCanonical]_vars

\* The clean text of a name
CleanOf(name) == Normalized(name).clean

\* choose_canonical_name returned for the group [name1, name2]
ChoseCanonical == returned.op = "choose_canonical_name"

\* C12: when the two members of a group have equal completeness scores and
\* clean texts of different lengths, choose_canonical_name returns the
\* longer clean text.
C12_LongerCleanTextWinsTie ==
    (/\ ChoseCanonical
     /\ Score20(CleanOf(name1)) = Score20(CleanOf(name2))
     /\ Len(CleanOf(name1)) > Len(CleanOf(name2))) => returned.value = CleanOf(name1)

\* One clean text is the other with the word "dazu" put in, and the other
\* does not contain "dazu"
DazuVariant(plain, variant) ==
    /\ ~Contains(Lower(plain), <<"d", "a", "z", "u">>)
    /\ \E k \in 0..Len(Split(plain)) : variant = WithDazu(plain, k)

\* C13: for a group of two names whose clean texts are identical except
\* that one contains the word "dazu", the score of the one with "dazu" is
\* strictly higher and choose_canonical_name returns it, whichever comes
\* first in the group.
C13_DazuVariantChosen ==
    ChoseCanonical =>
        /\ DazuVariant(CleanOf(name1), CleanOf(name2)) =>
              /\ Score20(CleanOf(name2)) > Score20(CleanOf(name1))
              /\ returned.value = CleanOf(name2)
        /\ DazuVariant(CleanOf(name2), CleanOf(name1)) =>
              /\ Score20(CleanOf(name1)) > Score20(CleanOf(name2))
              /\ returned.value = CleanOf(name1)

\* choose_canonical_name returned the clean text with "dazu" for a group
\* whose first member is the 80-character text without it: the word moves
\* the length further from the ideal length and still wins
C13_Witness ==
    /\ ChoseCanonical
    /\ name1 = NameFrikadelle80
    /\ DazuVariant(CleanOf(name1), CleanOf(name2))
    /\ returned.value = CleanOf(name2)

----------------------------------------------------------------------------
(* are_duplicates on pairs of longer names                                 *)

\* Meal names with proteins, with headlines of 5 and 6 characters, and
\* with comparison texts of 25 characters, paired with each other under
\* every threshold
PairPool ==
    {
     \* "Wok Bangkok mit Hähnchen"
     <<"W", "o", "k", " ", "B", "a", "n", "g", "k", "o", "k", " ", "m", "i", "t", " ", "H", "ä", "h", "n", "c", "h", "e", "n">>,
     \* "Wok Bangkok mit Huhn"
     <<"W", "o", "k", " ", "B", "a", "n", "g", "k", "o", "k", " ", "m", "i", "t", " ", "H", "u", "h", "n">>,
     \* "Wok Bangkok mit Rind"
     <<"W", "o", "k", " ", "B", "a", "n", "g", "k", "o", "k", " ", "m", "i", "t", " ", "R", "i", "n", "d">>,
     \* "Power & Sweet Wok mit Geflügel"
     <<"P", "o", "w", "e", "r", " ", "&", " ", "S", "w", "e", "e", "t", " ", "W", "o", "k", " ", "m", "i", "t", " ", "G", "e", "f", "l", "ü", "g", "e", "l">>,
     \* "Power & Sweet Wok mit Rind"
     <<"P", "o", "w", "e", "r", " ", "&", " ", "S", "w", "e", "e", "t", " ", "W", "o", "k", " ", "m", "i", "t", " ", "R", "i", "n", "d">>,
     \* "Pizzas mit Salami Oliven extra"
     <<"P", "i", "z", "z", "a", "s", " ", "m", "i", "t", " ", "S", "a", "l", "a", "m", "i", " ", "O", "l", "i", "v", "e", "n", " ", "e", "x", "t", "r", "a">>,
     \* "Pizza mit Schinken Zwiebeln Mais"
     <<"P", "i", "z", "z", "a", " ", "m", "i", "t", " ", "S", "c", "h", "i", "n", "k", "e", "n", " ", "Z", "w", "i", "e", "b", "e", "l", "n", " ", "M", "a", "i", "s">>,
     \* "Erbseneintopf mit Rotkohl"
     <<"E", "r", "b", "s", "e", "n", "e", "i", "n", "t", "o", "p", "f", " ", "m", "i", "t", " ", "R", "o", "t", "k", "o", "h", "l">>,
     \* "Bohneneintopf mit Rotkohl"
     <<"B", "o", "h", "n", "e", "n", "e", "i", "n", "t", "o", "p", "f", " ", "m", "i", "t", " ", "R", "o", "t", "k", "o", "h", "l">>
    }

\* The pairs of names of 100 characters, compared under the default
\* threshold, in both orders
LongPairs ==
    LET BothOrders(a, b) == {<<a, b>>, <<b, a>>}
    IN  BothOrders(
            \* "Dampfnudel mit Petersilienkartoffeln, Mischgemüse und Bratenjus dazu Rote Grütze oder Wackelpudding"
            <<"D", "a", "m", "p", "f", "n", "u", "d", "e", "l", " ", "m", "i", "t", " ", "P", "e", "t", "e", "r", "s", "i", "l", "i", "e", "n", "k", "a", "r", "t", "o", "f", "f", "e", "l", "n", ",", " ", "M", "i", "s", "c", "h", "g", "e", "m", "ü", "s", "e", " ", "u", "n", "d", " ", "B", "r", "a", "t", "e", "n", "j", "u", "s", " ", "d", "a", "z", "u", " ", "R", "o", "t", "e", " ", "G", "r", "ü", "t", "z", "e", " ", "o", "d", "e", "r", " ", "W", "a", "c", "k", "e", "l", "p", "u", "d", "d", "i", "n", "g">>,
            \* "Hackbraten mit Petersilienkartoffeln, Mischgemüse und Bratenjus dazu Rote Grütze oder Grießpudding"
            <<"H", "a", "c", "k", "b", "r", "a", "t", "e", "n", " ", "m", "i", "t", " ", "P", "e", "t", "e", "r", "s", "i", "l", "i", "e", "n", "k", "a", "r", "t", "o", "f", "f", "e", "l", "n", ",", " ", "M", "i", "s", "c", "h", "g", "e", "m", "ü", "s", "e", " ", "u", "n", "d", " ", "B", "r", "a", "t", "e", "n", "j", "u", "s", " ", "d", "a", "z", "u", " ", "R", "o", "t", "e", " ", "G", "r", "ü", "t", "z", "e", " ", "o", "d", "e", "r", " ", "G", "r", "i", "e", "ß", "p", "u", "d", "d", "i", "n", "g">>)
        \cup BothOrders(
            \* "Quarkkeulchen mit Petersilienkartoffeln, Bohnengemüse und Bratenjus dazu Obstsalat oder Tomatensalat"
            <<"Q", "u", "a", "r", "k", "k", "e", "u", "l", "c", "h", "e", "n", " ", "m", "i", "t", " ", "P", "e", "t", "e", "r", "s", "i", "l", "i", "e", "n", "k", "a", "r", "t", "o", "f", "f", "e", "l", "n", ",", " ", "B", "o", "h", "n", "e", "n", "g", "e", "m", "ü", "s", "e", " ", "u", "n", "d", " ", "B", "r", "a", "t", "e", "n", "j", "u", "s", " ", "d", "a", "z", "u", " ", "O", "b", "s", "t", "s", "a", "l", "a", "t", " ", "o", "d", "e", "r", " ", "T", "o", "m", "a", "t", "e", "n", "s", "a", "l", "a", "t">>,
            \* "Quarkkeulchen mit Petersilienkartoffeln, Blumenkohl und Bratenjus dazu Eisbergsalat oder Tomatensalat"
            <<"Q", "u", "a", "r", "k", "k", "e", "u", "l", "c", "h", "e", "n", " ", "m", "i", "t", " ", "P", "e", "t", "e", "r", "s", "i", "l", "i", "e", "n", "k", "a", "r", "t", "o", "f", "f", "e", "l", "n", ",", " ", "B", "l", "u", "m", "e", "n", "k", "o", "h", "l", " ", "u", "n", "d", " ", "B", "r", "a", "t", "e", "n", "j", "u", "s", " ", "d", "a", "z", "u", " ", "E", "i", "s", "b", "e", "r", "g", "s", "a", "l", "a", "t", " ", "o", "d", "e", "r", " ", "T", "o", "m", "a", "t", "e", "n", "s", "a", "l", "a", "t">>)

InitPairs ==
    /\ \/ /\ name1 \in PairPool
          /\ name2 \in PairPool
          /\ threshold \in ThresholdChoices
       \/ /\ \E pair \in LongPairs : name1 = pair[1] /\ name2 = pair[2]
          /\ threshold = DefaultThreshold
    /\ verdict = None
    /\ returned = NoReturn
    /\ all_meals = <<>>
    /\ EmptyDatabase
    /\ ToolIdle
    /\ ServiceIdle

SpecPairs == InitPairs /\ [][NextPredicate]_vars

\* The comparison text of a name
NormOf(name) == Normalized(name).norm

\* similarity_score of the comparison texts of name1 and name2 is h / 100
SimilarityIs(h) ==
    200 * Matches(NormOf(name1), NormOf(name2)) = h * (Len(NormOf(name1)) + Len(NormOf(name2)))

\* No protein conflict between name1 and name2
NoConflict == ~ProteinConflict(ProteinOf(name1), ProteinOf(name2))

\* One of the rules on the headlines (lines 205-209) or the rule on the
\* main components (lines 215-221) makes name1 and name2 duplicates
OtherRuleApplies ==
    \/ DishNorm(name1) = DishNorm(name2) /\ Len(DishNorm(name1)) > 5
    \/ SimilarityAtLeast(DishNorm(name1), DishNorm(name2), 90) /\ Len(DishNorm(name1)) > 5
    \/ SimilarityAtLeast(MainComponent(NormOf(name1)), MainComponent(NormOf(name2)), 92)

\* are_duplicates(name1, name2) returned under the default threshold
DecidedByDefault == verdict # None /\ threshold = DefaultThreshold

\* C14 as stated: under the default threshold two names without protein
\* conflict are duplicates when the similarity of their comparison texts
\* is exactly 0.88, and are not duplicates when it is 0.87.
C14_ThresholdDecides ==
    (DecidedByDefault /\ NoConflict) =>
        /\ SimilarityIs(88) => verdict = True
        /\ SimilarityIs(87) => verdict = False

\* C14: under the default threshold two names without protein conflict are
\* duplicates when the similarity of their comparison texts is exactly
\* 0.88; when it is 0.87 they are duplicates exactly when a headline rule
\* or the main-component rule applies, and not duplicates otherwise.
C14_ThresholdDecidesUnlessOtherRule ==
    (DecidedByDefault /\ NoConflict) =>
        /\ SimilarityIs(88) => verdict = True
        /\ SimilarityIs(87) => verdict = (IF OtherRuleApplies THEN True ELSE False)

\* Two names of similarity exactly 0.88 that no other rule makes
\* duplicates were judged duplicates under the default threshold
C14_Witness ==
    /\ DecidedByDefault
    /\ NoConflict
    /\ SimilarityIs(88)
    /\ ~OtherRuleApplies
    /\ ~SimilarityAtLeast(NormOf(name1), NormOf(name2), 95)
    /\ verdict = True

\* The text of the name, lower-cased, contains a keyword of the group
HasKeyword(name, group) ==
    \E keyword \in protein_keywords[group] : Contains(Lower(name), keyword)

\* C17: a name whose text contains a poultry keyword and no beef or pork
\* keyword counts as poultry, so that are_duplicates returns False for it
\* and a name tagged beef.
C17_PoultryAgainstBeefVetoed ==
    (/\ verdict # None
     /\ HasKeyword(name1, 3)
     /\ ~HasKeyword(name1, 1)
     /\ ~HasKeyword(name1, 2)
     /\ ProteinOf(name2) = 1) => verdict = False

\* C20: are_duplicates(name1, name2, threshold) =
\* are_duplicates(name2, name1, threshold) for all names and thresholds.
C20_PredicateSymmetric ==
    verdict # None => (verdict = True <=> are_duplicates(name2, name1, threshold))

----------------------------------------------------------------------------
(* The keys of the canonical mapping                                       *)

\* The names that are in a group
Grouped == UNION {Members(group) : group \in Groups}

\* The canonical name of a group
CanonicalOf(group) == choose_canonical_name(group)

\* The members of the groups other than the canonical name of their group
NonCanonicalMembers ==
    UNION {{name \in Members(group) : name # CanonicalOf(group)} : group \in Groups}

\* C15 as stated: the keys of the mapping are exactly the non-canonical
\* members of the groups, each mapped to the canonical name of its group,
\* and a name in no group is not a key.
C15_KeysAreNonCanonicalMembers ==
    /\ Keys = NonCanonicalMembers
    /\ \A group \in Groups : \A name \in Members(group) :
          name # CanonicalOf(group) => MappedTo(name) = CanonicalOf(group)
    /\ \A i \in 1..Len(all_meals) : all_meals[i] \notin Grouped => all_meals[i] \notin Keys

\* C15: the keys of the mapping are exactly the members of the groups, the
\* one that equals the canonical name of its group included; every member
\* is mapped to the single canonical name of its group, and a name in no
\* group is not a key.
C15_KeysAreMembers ==
    /\ Keys = Grouped
    /\ \A group \in Groups : \A name \in Members(group) :
          MappedTo(name) = CanonicalOf(group)
    /\ \A i \in 1..Len(all_meals) : all_meals[i] \notin Grouped => all_meals[i] \notin Keys

\* A pass that emitted a group whose canonical name is one of its members,
\* which is a key, and left a name of the list in no group
C15_Witness ==
    /\ runs > 0
    /\ \E group \in Groups : CanonicalOf(group) \in Members(group) /\ CanonicalOf(group) \in Keys
    /\ \E i \in 1..Len(all_meals) : all_meals[i] \notin Grouped /\ all_meals[i] \notin Keys

----------------------------------------------------------------------------
(* normalize_meal_name and extract_dish_name on their own                  *)

\* Names made of a dish, what follows it, and a token of the shape of an
\* allergen code
CodedNames ==
    {stem \o junction \o token :
        stem \in {<<"P", "o", "m", "m", "e", "s">>, <<"R", "e", "i", "s">>},
        junction \in {<<" ">>, <<" ", "-">>, <<" ", "-", " ">>, <<" ", "(", "x", ")">>, <<",", " ">>, <<" ", "&">>},
        token \in {<<"a">>, <<"A">>, <<"b", "1">>, <<"B", "2">>, <<"3">>}}

\* Names of more than 3 words with the words mit and in at several places
DishNames ==
    {
     \* "In Butter geschwenkte Kartoffeln mit Quark"
     <<"I", "n", " ", "B", "u", "t", "t", "e", "r", " ", "g", "e", "s", "c", "h", "w", "e", "n", "k", "t", "e", " ", "K", "a", "r", "t", "o", "f", "f", "e", "l", "n", " ", "m", "i", "t", " ", "Q", "u", "a", "r", "k">>,
     \* "In Butter geschwenkte Kartoffeln Quark"
     <<"I", "n", " ", "B", "u", "t", "t", "e", "r", " ", "g", "e", "s", "c", "h", "w", "e", "n", "k", "t", "e", " ", "K", "a", "r", "t", "o", "f", "f", "e", "l", "n", " ", "Q", "u", "a", "r", "k">>,
     \* "Kartoffeln in Butter mit Quark"
     <<"K", "a", "r", "t", "o", "f", "f", "e", "l", "n", " ", "i", "n", " ", "B", "u", "t", "t", "e", "r", " ", "m", "i", "t", " ", "Q", "u", "a", "r", "k">>,
     \* "Bunte Nudelpfanne Gemüse Käse überbacken"
     <<"B", "u", "n", "t", "e", " ", "N", "u", "d", "e", "l", "p", "f", "a", "n", "n", "e", " ", "G", "e", "m", "ü", "s", "e", " ", "K", "ä", "s", "e", " ", "ü", "b", "e", "r", "b", "a", "c", "k", "e", "n">>,
     \* "Schnitzel mit Pommes und Salat a, c"
     <<"S", "c", "h", "n", "i", "t", "z", "e", "l", " ", "m", "i", "t", " ", "P", "o", "m", "m", "e", "s", " ", "u", "n", "d", " ", "S", "a", "l", "a", "t", " ", "a", ",", " ", "c">>
    }

\* The names the two functions are called on
TextPool == CodedNames \cup DishNames

InitText ==
    /\ name1 \in TextPool
    /\ name2 = <<>>
    /\ threshold = DefaultThreshold
    /\ verdict = None
    /\ returned = NoReturn
    /\ all_meals = <<>>
    /\ EmptyDatabase
    /\ ToolIdle
    /\ ServiceIdle

\* returned = normalize_meal_name(name1)
NormalizeMealName ==
    /\ returned.op = "none"
    /\ returned' = [op |-> "normalize_meal_name", value |-> normalize_meal_name(name1)]
    /\ UNCHANGED <<meal, day, committedMeal, committedDay, dayColumns, inTransaction,
                   processed, duplicate_groups, canonical_mapping, runs, lastCall,
                   name1, name2, threshold, verdict, all_meals, evaluated,
                   mealplan, now, pdf, archive>>

\* returned = extract_dish_name(name1)
ExtractDishName ==
    /\ returned.op = "none"
    /\ returned' = [op |-> "extract_dish_name", value |-> extract_dish_name(name1)]
    /\ UNCHANGED <<meal, day, committedMeal, committedDay, dayColumns, inTransaction,
                   processed, duplicate_groups, canonical_mapping, runs, lastCall,
                   name1, name2, threshold, verdict, all_meals, evaluated,
                   mealplan, now, pdf, archive>>

NextText == NormalizeMealName \/ ExtractDishName

SpecText == InitText /\ [][NextText]_vars

\* s contains a parenthesized aside
HasAside(s) == \E i \in 1..Len(s) : \E j \in (i + 1)..Len(s) : s[i] = "(" /\ s[j] = ")"

\* A letter of either case
IsAsciiLetter(c) == IsAsciiLower(LowerChar(c))

\* s[i..j] has the shape of an allergen code: a letter, a letter and a
\* digit, or a digit
CodeShape(s, i, j) ==
    \/ j = i /\ (IsAsciiLetter(s[i]) \/ IsDigit(s[i]))
    \/ j = i + 1 /\ IsAsciiLetter(s[i]) /\ IsDigit(s[j])

\* s contains a token of that shape bounded by white space, commas or the
\* ends of s
HasIsolatedCode(s) ==
    \E i \in 1..Len(s) : \E j \in {i, i + 1} \cap (1..Len(s)) :
        /\ i = 1 \/ IsCommaOrSpace(s[i - 1])
        /\ j = Len(s) \/ IsCommaOrSpace(s[j + 1])
        /\ CodeShape(s, i, j)

\* C16: the clean text that normalize_meal_name returns contains no
\* parenthesized aside and no isolated token of the shape of an allergen
\* code, in either case, also when the token became isolated only by the
\* removal of parentheses, commas, '&' or dashes.
C16_CleanTextHasNoCode ==
    returned.op = "normalize_meal_name" =>
        /\ ~HasAside(returned.value.clean)
        /\ ~HasIsolatedCode(returned.value.clean)

\* The word positions (from 1) of the words mit, dazu, in, an
Connectives(words) == {i \in 1..Len(words) : Lower(words[i]) \in DishSeparators}

\* The headline the first connective gives: the words before it when it is
\* not the first word, the first 3 words otherwise
HeadlineByFirstConnective(words) ==
    IF Connectives(words) # {} /\ Min(Connectives(words)) > 1
    THEN Join(FirstWords(words, Min(Connectives(words)) - 1))
    ELSE Join(FirstWords(words, 3))

\* C19: for a name without the word Wok whose clean text has more than 3
\* words, extract_dish_name returns the words before the first connective
\* when that is not the first word, and the first 3 words when there is no
\* connective or the first connective is the first word.
C19_FirstConnectiveDecides ==
    (/\ returned.op = "extract_dish_name"
     /\ \A i \in 1..Len(Split(CleanOf(name1))) : Lower(Split(CleanOf(name1))[i]) # WordWok
     /\ Len(Split(CleanOf(name1))) > 3)
        => returned.value = HeadlineByFirstConnective(Split(CleanOf(name1)))

----------------------------------------------------------------------------
(* similarity_score on its own                                             *)

\* The longest strings compared
MaxLength == 3

\* The characters they are made of
SimilarityChars == {"a", "b", " "}

\* The strings compared
Strings == UNION {[1..n -> SimilarityChars] : n \in 0..MaxLength}

InitSimilarity ==
    /\ name1 \in Strings
    /\ name2 \in Strings
    /\ threshold = DefaultThreshold
    /\ verdict = None
    /\ returned = NoReturn
    /\ all_meals = <<>>
    /\ EmptyDatabase
    /\ ToolIdle
    /\ ServiceIdle

\* returned = similarity_score(name1, name2)
SimilarityScore ==
    /\ returned.op = "none"
    /\ returned' = [op |-> "similarity_score", value |-> similarity_score(name1, name2)]
    /\ UNCHANGED <<meal, day, committedMeal, committedDay, dayColumns, inTransaction,
                   processed, duplicate_groups, canonical_mapping, runs, lastCall,
                   name1, name2, threshold, verdict, all_meals, evaluated,
                   mealplan, now, pdf, archive>>

NextSimilarity == SimilarityScore

SpecSimilarity == InitSimilarity /\ [][NextSimilarity]_vars

\* Two fractions are the same number
SameFraction(x, y) == x[1] * y[2] = y[1] * x[2]

\* The length of the longest block of characters that a and b share
LongestCommonBlock(a, b) ==
    Max({0} \cup {k \in 1..Min({Len(a), Len(b)}) :
                     \E i \in 1..(Len(a) - k + 1) : \E j \in 1..(Len(b) - k + 1) :
                         SubSeq(a, i, i + k - 1) = SubSeq(b, j, j + k - 1)})

\* The number of characters that a and b share, counted with multiplicity
RECURSIVE CommonCharacters(_, _, _)
CommonCharacters(chars, a, b) ==
    IF chars = {} THEN 0
    ELSE LET Counted(c) ==
                 Min({CountChar(a, c), CountChar(b, c)}) + CommonCharacters(chars \ {c}, a, b)
         IN  Counted(CHOOSE c \in chars : TRUE)

\* similarity_score(name1, name2) returned
ScoreReturned == returned.op = "similarity_score"

\* C18 as stated: similarity_score(a, b) = similarity_score(b, a),
\* similarity_score(a, a) = 1, and the value is in [0, 1].
C18_SimilaritySymmetric ==
    ScoreReturned =>
        /\ SameFraction(returned.value, similarity_score(name2, name1))
        /\ name1 = name2 => SameFraction(returned.value, <<1, 1>>)
        /\ 0 <= returned.value[1] /\ returned.value[1] <= returned.value[2]

\* C18: similarity_score(a, a) = 1, the value is in [0, 1], and it is
\* 2 * M / T with T = len(a) + len(b) and M the total length of the blocks
\* of the greedy longest-match split of a against b, which is at least the
\* longest block the two share and at most the number of characters they
\* share.
C18_SimilarityReflexiveInRange ==
    ScoreReturned =>
        /\ name1 = name2 => SameFraction(returned.value, <<1, 1>>)
        /\ 0 <= returned.value[1] /\ returned.value[1] <= returned.value[2]
        /\ Len(name1) + Len(name2) > 0 =>
              /\ returned.value[2] = Len(name1) + Len(name2)
              /\ returned.value[1] >= 2 * LongestCommonBlock(name1, name2)
              /\ returned.value[1] <= 2 * CommonCharacters(SimilarityChars, name1, name2)

\* similarity_score returned for two strings whose score in the other
\* order differs
C18_Witness ==
    /\ ScoreReturned
    /\ ~SameFraction(returned.value, similarity_score(name2, name1))
    /\ returned.value[1] > 2 * LongestCommonBlock(name1, name2)

----------------------------------------------------------------------------
(* The seeds and the predicate calls of a cluster pass                     *)

\* The positions of all_meals whose name opened a group: the names that no
\* group holds behind its first place
SeedPositions ==
    {i \in 1..Len(all_meals) :
        ~\E g \in 1..Len(duplicate_groups) :
            \E k \in 2..Len(duplicate_groups[g]) : duplicate_groups[g][k] = all_meals[i]}

\* The pass went through the whole list: every name of it is in processed
PassDone == processed = {all_meals[i] : i \in 1..Len(all_meals)}

\* The k-th call of the pass had all_meals[i] and all_meals[j] as arguments
CalledWith(k, i, j) == evaluated[k] = <<all_meals[i], all_meals[j]>>

\* C21: after the pass the seeds (every name that opened a group, the
\* singletons included) are pairwise non-duplicates in list order:
\* are_duplicates(s1, s2) is false for seeds s1 before s2; every unordered
\* pair of names is evaluated at most once, with the earlier name as first
\* argument, so the pass makes at most n(n-1)/2 evaluations.
C21_SeedsApartPairsOnce ==
    PassDone =>
    /\ \A i, j \in SeedPositions : i < j => ~IsDuplicate(all_meals[i], all_meals[j])
    /\ \A k \in 1..Len(evaluated) :
          \E i, j \in 1..Len(all_meals) : i < j /\ CalledWith(k, i, j)
    /\ \A i, j \in 1..Len(all_meals) :
          Cardinality({k \in 1..Len(evaluated) : CalledWith(k, i, j) \/ CalledWith(k, j, i)}) <= 1
    /\ 2 * Len(evaluated) <= Len(all_meals) * (Len(all_meals) - 1)

\* A pass that grouped a name, left two seeds and skipped a pair
C21_Witness ==
    /\ runs > 0
    /\ Len(duplicate_groups) >= 1
    /\ Cardinality(SeedPositions) >= 2
    /\ Len(evaluated) >= 2
    /\ 2 * Len(evaluated) < Len(all_meals) * (Len(all_meals) - 1)

----------------------------------------------------------------------------
(* The scheduler job over the days                                         *)

\* The three tables of the database file
Database == [mealplan |-> mealplan, meal |-> meal, day |-> day]

\* The tables init_db creates, no plan stored, on the first date
InitScheduler ==
    /\ EmptyDatabase
    /\ ToolIdle
    /\ ServiceIdle
    /\ PureIdle

\* Time passes to the next date on which the job runs
Tick ==
    /\ \E k \in 1..(Len(Clock) - 1) : now = Clock[k] /\ now' = Clock[k + 1]
    /\ UNCHANGED <<meal, day, committedMeal, committedDay, dayColumns, inTransaction,
                   processed, duplicate_groups, canonical_mapping, runs, lastCall,
                   name1, name2, threshold, verdict, returned, all_meals, evaluated,
                   mealplan, pdf, archive>>

\* The school replaces what its site serves
Publish ==
    /\ \E served \in Documents \ {pdf} : pdf' = served
    /\ UNCHANGED <<meal, day, committedMeal, committedDay, dayColumns, inTransaction,
                   processed, duplicate_groups, canonical_mapping, runs, lastCall,
                   name1, name2, threshold, verdict, returned, all_meals, evaluated,
                   mealplan, now, archive>>

\* download_and_parse_pdf(), as the scheduler of app/main.py calls it
DownloadAndParsePdf ==
    /\ LET Return(r) ==
               /\ mealplan' = r.db.mealplan
               /\ meal' = r.db.meal
               /\ day' = r.db.day
               /\ committedMeal' = r.db.meal
               /\ committedDay' = r.db.day
               /\ archive' = r.archive
               /\ returned' = [op |-> "download_and_parse_pdf", value |-> r.value,
                               requested |-> r.requested, today |-> now,
                               served |-> pdf, before |-> Database, files |-> archive]
       IN  Return(download_and_parse_pdf(now, Database, archive, pdf))
    /\ UNCHANGED <<dayColumns, inTransaction,
                   processed, duplicate_groups, canonical_mapping, runs, lastCall,
                   name1, name2, threshold, verdict, all_meals, evaluated, now, pdf>>

NextScheduler ==
    \/ Tick
    \/ Publish
    \/ DownloadAndParsePdf

SpecScheduler == InitScheduler /\ [][NextScheduler]_vars

\* The job was called
JobReturned == returned.op = "download_and_parse_pdf"

\* The j-th week of the block of the last call
BlockWeek(j) == get_current_week_range(returned.today)[j]

\* The last call of the job found a plan for the j-th week of its block,
\* the document it parsed has days in that week, a plan is stored for it
FoundBefore(j) == fetch_mealplan(returned.before, returned.today.year, BlockWeek(j)) # <<>>

ParsedDaysIn(j) ==
    returned.served.status = "ok" /\ DaysOfWeek(returned.served.days, BlockWeek(j)) # <<>>

StoredAfter(j) == fetch_mealplan(Database, returned.today.year, BlockWeek(j)) # <<>>

\* The number of rows of the table for the j-th week of the block in the
\* year of the call
RowsFor(table, j) ==
    Cardinality({id \in 1..Len(table) :
                    table[id].year = returned.today.year /\ table[id].week = BlockWeek(j)})

\* C22: download_and_parse_pdf stores each week of the current two-week
\* block separately: whenever fetch_mealplan(year, week) finds no plan for a
\* week of the block and the parsed PDF has days in that week, the call
\* stores a mealplan for that (year, week) and returns True, for any prior
\* database content, plans with the same week number of an earlier year
\* included; a week already stored for the current year is never inserted
\* again, and when both weeks are stored nothing is downloaded or written.
C22_EachMissingWeekStored ==
    JobReturned =>
        /\ \A j \in 1..2 :
              ~FoundBefore(j) /\ ParsedDaysIn(j) => StoredAfter(j) /\ returned.value = True
        /\ \A j \in 1..2 :
              FoundBefore(j) => RowsFor(mealplan, j) = RowsFor(returned.before.mealplan, j)
        /\ FoundBefore(1) /\ FoundBefore(2) =>
              /\ ~returned.requested
              /\ Database = returned.before
              /\ archive = returned.files
====
